---- MODULE Spec2Model ----
(***************************************************************************)
(* Verification model of the advising pipeline of Nxt-AI-Agent:            *)
(*   - ConversationMemory, AgentSystem.process_query and the chat endpoint *)
(*     of 8.memory_agent/server (agent_system.py, app.py);                 *)
(*   - RecommendationTool of 8.memory_agent/server/tools;                  *)
(*   - SemesterManager, QueryParser, QueryValidator, CourseTool and        *)
(*     EnrollmentTool of 7.multi_agent/server.                             *)
(* Korean text is written syllable by syllable in romanised form: every    *)
(* Hangul syllable is one token, so substring tests on token sequences     *)
(* agree with Python's substring tests on the original strings.            *)
(***************************************************************************)
EXTENDS Integers, Sequences, FiniteSets, TLC

VARIABLES
    store,                  \* content of memory_<student_id>.json on disk
    running,                \* an AgentSystem instance for the student exists
    conversation_history,   \* ConversationMemory.conversation_history of that instance
    clock,                  \* datetime.now(): one tick per recorded call
    calls,                  \* turns passed to list.append by add_conversation on this instance
    loaded,                 \* turns the instance loaded when it was constructed
    last,                   \* outcome of the last operation
    asked,                  \* questions submitted so far in this behaviour
    pc, req, res, tmp, resp,            \* chat requests in flight (server)
    rin, rout                           \* arguments and result of a tool or function call

memVars == <<store, running, conversation_history, clock, calls, loaded, last, asked>>
srvVars == <<pc, req, res, tmp, resp>>
recVars == <<rin, rout>>
vars == <<store, running, conversation_history, clock, calls, loaded, last, asked,
          pc, req, res, tmp, resp, rin, rout>>

----------------------------------------------------------------------------
(* Bounds of the model                                                     *)

MaxCalls == 2           \* questions submitted in one behaviour
MaxRequests == 2        \* chat requests of one behaviour of the server

(* Program constants                                                       *)

max_history == 10       \* ConversationMemory.max_history

Min(a, b) == IF a < b THEN a ELSE b

\* (a variant that does not clamp: always the second argument)
SecondArgument(a, b) == b

Max(a, b) == IF a > b THEN a ELSE b

----------------------------------------------------------------------------
(* Python list slicing                                                     *)

\* s[-n:] for n >= 0: the last n elements, and the whole list when n = 0
\* (-0 is 0, so s[-0:] is s[0:]).
SliceLast(s, n) ==
    IF n = 0 \/ n >= Len(s) THEN s ELSE SubSeq(s, Len(s) - n + 1, Len(s))

\* s[:n] for n >= 0
SliceFirst(s, n) == SubSeq(s, 1, Min(n, Len(s)))

\* k in s, for strings written as token sequences (k non-empty)
Contains(s, k) ==
    \E i \in 0..(Len(s) - Len(k)) : SubSeq(s, i + 1, i + Len(k)) = k

----------------------------------------------------------------------------
(* Questions                                                               *)

SP == " "

\* str.lower() on one character: Hangul is unchanged, Latin capitals fold.
LowerChar(c) ==
    CASE c = "A" -> "a"
      [] c = "B" -> "b"
      [] c = "F" -> "f"
      [] OTHER -> c

Lower(s) == [i \in 1..Len(s) |-> LowerChar(s[i])]

\* Sample question texts (Hangul syllables romanised, one token each)
Questions == <<
    <<"nae", SP, "seong", "jeok", SP, "gwa", "mok">>,           \* "내 성적 과목"
    <<"an", "nyeong">>,                                         \* "안녕"
    <<"jeon", "che", SP, "hyeon", "hwang">>,                    \* "전체 현황"
    <<"jol", "eop", SP, "yo", "geon">>,                         \* "졸업 요건"
    <<"da", "eum", SP, "hak", "gi", SP, "chu", "cheon">>,       \* "다음 학기 추천"
    <<"gang", "ui", SP, "jeong", "bo">>,                        \* "강의 정보"
    <<"seong", "jeok", SP, "A">>                                \* "성적 A"
>>

QIds == 1..Len(Questions)

\* keyword lists of classify_question, in source order
KwPersonal == {
    <<"nae", SP, "i", "su">>, <<"nae", SP, "hak", "gi">>, <<"nae", SP, "jeong", "bo">>,
    <<"nae", SP, "hyeon", "hwang">>, <<"nae", SP, "seong", "jeok">>,
    <<"nae", SP, "i", "ryeok">>, <<"nae", SP, "bun", "seok">>, <<"nae", SP, "hak", "jeom">> }
KwComprehensive == {
    <<"jong", "hap">>, <<"jeon", "che">>, <<"mo", "deun">>, <<"wan", "jeon", "han">>,
    <<"jeon", "ban", "jeok">>, <<"chong", "gwal">> }
KwGraduation == {
    <<"jol", "eop", SP, "yo", "geon">>, <<"jol", "eop", SP, "hak", "jeom">>,
    <<"jol", "eop", SP, "non", "mun">>, <<"jol", "eop", SP, "in", "jeung">>,
    <<"jol", "eop">> }
KwRecommendation == {
    <<"chu", "cheon">>, <<"su", "gang">>, <<"gye", "hoek">>, <<"ro", "deu", "maep">>,
    <<"da", "eum", "hak", "gi">>, <<"seon", "taek">> }
KwCourse == {
    <<"gang", "ui">>, <<"gwa", "mok">>, <<"si", "gan", "pyo">>, <<"gyo", "su">>,
    <<"gang", "jwa">> }
KwGeneric == {
    <<"nae">>, <<"hyeon", "hwang">>, <<"seong", "jeok">>, <<"i", "ryeok">>,
    <<"jeong", "bo">>, <<"bun", "seok">> }

AnyKeyword(q, kws) == \E k \in kws : Contains(q, k)

\* (a variant that tests the catalog keywords before the personal-record ones)
classify_question_catalog_first(question) ==
    LET question_lower == Lower(question) IN
    IF AnyKeyword(question_lower, KwCourse) THEN "course"
    ELSE IF AnyKeyword(question_lower, KwPersonal) THEN "student"
    ELSE IF AnyKeyword(question_lower, KwComprehensive) THEN "comprehensive"
    ELSE IF AnyKeyword(question_lower, KwGraduation) THEN "graduation"
    ELSE IF AnyKeyword(question_lower, KwRecommendation) THEN "recommendation"
    ELSE IF AnyKeyword(question_lower, KwGeneric) THEN "student"
    ELSE "general"

\* AgentSystem.classify_question: the value of the QuestionType returned
classify_question(question) ==
    LET question_lower == Lower(question) IN
    IF AnyKeyword(question_lower, KwPersonal) THEN "student"
    ELSE IF AnyKeyword(question_lower, KwComprehensive) THEN "comprehensive"
    ELSE IF AnyKeyword(question_lower, KwGraduation) THEN "graduation"
    ELSE IF AnyKeyword(question_lower, KwRecommendation) THEN "recommendation"
    ELSE IF AnyKeyword(question_lower, KwCourse) THEN "course"
    ELSE IF AnyKeyword(question_lower, KwGeneric) THEN "student"
    ELSE "general"

----------------------------------------------------------------------------
(* Stage templates                                                         *)

\* One Task: the agent that runs it, the instruction template and the
\* question text spliced into the instruction (empty when the template
\* has no {question} placeholder).
Stage(agent, template, question) ==
    [agent |-> agent, template |-> template, question |-> question]

\* (a variant whose Recommendation list has the summary before the
\* recommendation and whose fallback is the student expert)
create_tasks_reordered(question, question_type) ==
    CASE question_type = "comprehensive" ->
            << Stage("student_expert", "comprehensive_student", <<>>),
               Stage("graduation_expert", "comprehensive_graduation", <<>>),
               Stage("recommendation_expert", "comprehensive_recommendation", <<>>),
               Stage("summary_expert", "comprehensive_summary", <<>>) >>
      [] question_type = "graduation" ->
            << Stage("graduation_expert", "graduation", question) >>
      [] question_type = "recommendation" ->
            << Stage("student_expert", "recommendation_student", question),
               Stage("summary_expert", "recommendation_summary", question),
               Stage("recommendation_expert", "recommendation", question) >>
      [] question_type = "course" ->
            << Stage("course_expert", "course", question) >>
      [] question_type = "student" ->
            << Stage("student_expert", "student", question) >>
      [] OTHER ->
            << Stage("student_expert", "general", question) >>

\* AgentSystem.create_tasks
create_tasks(question, question_type) ==
    CASE question_type = "comprehensive" ->
            << Stage("student_expert", "comprehensive_student", <<>>),
               Stage("graduation_expert", "comprehensive_graduation", <<>>),
               Stage("recommendation_expert", "comprehensive_recommendation", <<>>),
               Stage("summary_expert", "comprehensive_summary", <<>>) >>
      [] question_type = "graduation" ->
            << Stage("graduation_expert", "graduation", question) >>
      [] question_type = "recommendation" ->
            << Stage("student_expert", "recommendation_student", question),
               Stage("recommendation_expert", "recommendation", question),
               Stage("summary_expert", "recommendation_summary", question) >>
      [] question_type = "course" ->
            << Stage("course_expert", "course", question) >>
      [] question_type = "student" ->
            << Stage("student_expert", "student", question) >>
      [] OTHER ->
            << Stage("graduation_expert", "general", question) >>

\* tools attached to each agent by _create_agents
AgentTools(agent) ==
    CASE agent = "student_expert" -> {"student", "enrollment"}
      [] agent = "graduation_expert" -> {"graduation"}
      [] agent = "course_expert" -> {"course"}
      [] agent = "recommendation_expert" -> {"recommendation"}
      [] OTHER -> {}

----------------------------------------------------------------------------
(* The persisted store and JSON                                            *)

\* A JSON value: a list of turn objects, or something that is not a list
\* ("object": a non-empty JSON object, "empty_object": {}, "null").
JsonList(items) == [tag |-> "list", items |-> items]
JsonOther(tag) == [tag |-> tag, items |-> <<>>]

\* One conversation record as add_conversation builds it
Turn(timestamp, question, answer, question_type) ==
    [timestamp |-> timestamp, question |-> question, answer |-> answer,
     question_type |-> question_type]

\* json.dump of a dict of strings: one JSON object member per key
DumpTurn(conv) ==
    [timestamp |-> conv.timestamp, question |-> conv.question,
     answer |-> conv.answer, question_type |-> conv.question_type]

\* json.load of such an object: one dict entry per member
LoadTurn(obj) ==
    [timestamp |-> obj.timestamp, question |-> obj.question,
     answer |-> obj.answer, question_type |-> obj.question_type]

json_dump(value) ==
    [tag |-> value.tag, items |-> [i \in 1..Len(value.items) |-> DumpTurn(value.items[i])]]

json_load(doc) ==
    [tag |-> doc.tag, items |-> [i \in 1..Len(doc.items) |-> LoadTurn(doc.items[i])]]

\* The file memory_<student_id>.json: absent, unparseable text (empty or
\* cut short), or the complete text of a JSON document.
Missing == [kind |-> "missing", doc |-> JsonOther("none")]
Garbage == [kind |-> "garbage", doc |-> JsonOther("none")]
FileOf(doc) == [kind |-> "text", doc |-> doc]

\* ConversationMemory._load_memory; io_ok = FALSE: open or read raises
load_memory(file, io_ok) ==
    IF file.kind = "missing" THEN JsonList(<<>>)
    ELSE IF io_ok /\ file.kind = "text" THEN json_load(file.doc)
    ELSE JsonList(<<>>)

\* ConversationMemory._save_memory. outcome: "ok"; "open_fails" (open
\* raises, nothing written); "write_fails" (the file was truncated by
\* open(.., 'w') and the dump raised before the text was complete).  The
\* exception is swallowed in both cases.
save_memory(file, history, outcome) ==
    CASE outcome = "ok" -> FileOf(json_dump(history))
      [] outcome = "open_fails" -> file
      [] OTHER -> Garbage

SaveOutcomes == {"ok", "open_fails", "write_fails"}

----------------------------------------------------------------------------
(* ConversationMemory                                                      *)

\* Python truth value of a loaded JSON value (not self.conversation_history)
Truthy(h) ==
    CASE h.tag = "list" -> Len(h.items) > 0
      [] h.tag = "object" -> TRUE
      [] OTHER -> FALSE

\* list.append exists only on a list
CanAppend(h) == h.tag = "list"

\* (a variant whose trim keeps the oldest max_history turns)
AppendAndTrimOldest(items, conversation) ==
    LET appended == Append(items, conversation) IN
    IF Len(appended) > max_history
    THEN SliceFirst(appended, max_history)
    ELSE appended

\* line 74: len(self.conversation_history) > self.max_history
NeedsTrim(items) == Len(items) > max_history

\* line 75, right-hand side: self.conversation_history[-self.max_history:]
TrimSlice(items) == SliceLast(items, max_history)

\* lines 71-75 of add_conversation: append, then keep the last max_history
AppendAndTrim(items, conversation) ==
    LET appended == Append(items, conversation) IN
    IF NeedsTrim(appended) THEN TrimSlice(appended) ELSE appended

\* ConversationMemory.add_conversation on a list history
add_conversation(h, conversation) == JsonList(AppendAndTrim(h.items, conversation))

\* get_recent_context / get_conversation_summary slice and subscript the
\* history: both raise on a non-empty JSON object.
ReadRaises(h) == Truthy(h) /\ h.tag # "list"

\* conv['answer'][:200], line 89
AnswerBudget == 200

\* one element of context_parts: a label, the text put after it, and what
\* is written after the text
Part(label, text, suffix) == [label |-> label, text |-> text, suffix |-> suffix]

\* ConversationMemory.get_recent_context: context_parts, which the result
\* joins with newlines (the empty text for no part)
get_recent_context(h, limit) ==
    IF ~Truthy(h) THEN <<>>
    ELSE LET recent == SliceLast(h.items, limit) IN
         [i \in 1..(2 * Len(recent)) |->
            IF i % 2 = 1
            THEN Part("question", recent[(i + 1) \div 2].question, "")
            ELSE Part("answer", SliceFirst(recent[i \div 2].answer, AnswerBudget), "...")]

\* ConversationMemory.get_conversation_summary: the numbered (question, type) lines
get_conversation_summary(h) ==
    IF ~Truthy(h) THEN <<>>
    ELSE LET recent == SliceLast(h.items, 5) IN
         [i \in 1..Len(recent) |-> <<i, recent[i].question, recent[i].question_type>>]

\* _get_summary_expert_backstory, lines 288-318: the two texts it reads
\* from the memory and puts into the backstory
get_summary_expert_backstory(h) ==
    [conversation_summary |-> get_conversation_summary(h),
     memory_context |-> get_recent_context(h, 3)]

----------------------------------------------------------------------------
(* The pipeline                                                            *)

\* A tool's _run (CourseTool, StudentTool, EnrollmentTool, RecommendationTool:
\* "except Exception as e: return <message>"; GraduationTool: the search
\* returns [] and the tool reports that nothing was found): a failed
\* record-store or retrieval call becomes text handed back to the agent.
tool_run(tool, db_ok) ==
    IF db_ok THEN "rows"
    ELSE IF tool = "graduation" THEN "no_result_text"
    ELSE "error_text"

\* Crew.kickoff with Process.sequential: the tasks run one after another;
\* fail_at = k > 0: the text generation of task k raises.  The result is the
\* output of the last task.
kickoff(tasks, fail_at, db_ok) ==
    IF fail_at \in 1..Len(tasks)
    THEN [status |-> "raised", ran |-> fail_at - 1, output |-> "none",
          tool_texts |-> {}]
    ELSE [status |-> "returned", ran |-> Len(tasks),
          output |-> tasks[Len(tasks)].agent,
          tool_texts |-> UNION { {tool_run(t, db_ok) : t \in AgentTools(tasks[i].agent)}
                                 : i \in 1..Len(tasks) }]

\* lines 415-419 of process_query: the record handed to add_conversation
NewTurn(now, q, result) ==
    Turn(now, q, result.output, classify_question(Questions[q]))

\* (a variant) the turn is recorded whatever kickoff did
WritesTurnAlways(result) == TRUE

\* process_query reaches add_conversation only when kickoff returned
WritesTurn(result) == result.status = "returned"

----------------------------------------------------------------------------
(* Outcome of the last operation                                           *)

Outcome(op, q, pipeline, result) ==
    [op |-> op, q |-> q, pipeline |-> pipeline, result |-> result]

NoInstance == JsonList(<<>>)

\* questions typed at the prompt of main()
Asked == {1, 2, 3}

\* the longest stage template of create_tasks
MaxStages == 4

----------------------------------------------------------------------------
(* Operations of one process (main() of agent_system.py)                   *)

\* AgentSystem.__init__: ConversationMemory(student_id) loads the store, then
\* _create_agents builds the backstories, which read the history.
Construct(io_ok) ==
    /\ ~running
    /\ LET h == load_memory(store, io_ok) IN
       IF ReadRaises(h)
       THEN /\ last' = Outcome("construct", 0, "none", "raised")
            /\ UNCHANGED <<running, conversation_history, calls, loaded>>
       ELSE /\ running' = TRUE
            /\ conversation_history' = h
            /\ calls' = <<>>
            /\ loaded' = h.items
            /\ last' = Outcome("construct", 0, "none", "returned")
    /\ UNCHANGED <<store, clock, asked, srvVars, recVars>>

\* AgentSystem.process_query, the whole call
ProcessQuery(q, fail_at, db_ok, save_outcome) ==
    /\ running
    /\ asked < MaxCalls
    /\ asked' = asked + 1
    /\ LET question == Questions[q]
           tasks == create_tasks(question, classify_question(question))
           result == kickoff(tasks, fail_at, db_ok)
           conversation == NewTurn(clock + 1, q, result)
           pipeline == IF result.status = "returned" THEN "completed" ELSE "failed"
       IN  /\ fail_at \in 0..Len(tasks)
           /\ IF ~WritesTurn(result)
              THEN /\ last' = Outcome("process_query", q, pipeline, "raised")
                   /\ UNCHANGED <<store, conversation_history, clock, calls>>
              ELSE IF ~CanAppend(conversation_history)
              THEN /\ last' = Outcome("process_query", q, pipeline, "raised")
                   /\ UNCHANGED <<store, conversation_history, clock, calls>>
              ELSE /\ conversation_history' = add_conversation(conversation_history, conversation)
                   /\ calls' = Append(calls, conversation)
                   /\ clock' = clock + 1
                   /\ store' = save_memory(store, conversation_history', save_outcome)
                   /\ last' = Outcome("process_query", q, pipeline, result.status)
    /\ UNCHANGED <<running, loaded, srvVars, recVars>>

\* The process is stopped while kickoff runs: nothing was written.
KilledInPipeline(q) ==
    /\ running
    /\ asked < MaxCalls
    /\ asked' = asked + 1
    /\ running' = FALSE
    /\ conversation_history' = NoInstance
    /\ calls' = <<>>
    /\ loaded' = <<>>
    /\ last' = Outcome("process_query", q, "interrupted", "killed")
    /\ UNCHANGED <<store, clock, srvVars, recVars>>

\* The process is stopped inside _save_memory, after open(.., 'w') truncated
\* the file and before the text was complete.
KilledInSave(q) ==
    /\ running
    /\ asked < MaxCalls
    /\ asked' = asked + 1
    /\ CanAppend(conversation_history)
    /\ running' = FALSE
    /\ conversation_history' = NoInstance
    /\ calls' = <<>>
    /\ loaded' = <<>>
    /\ clock' = clock + 1
    /\ store' = Garbage
    /\ last' = Outcome("process_query", q, "completed", "killed")
    /\ UNCHANGED <<srvVars, recVars>>

\* 'quit' at the prompt, or the process ends between two questions
Exit ==
    /\ running
    /\ running' = FALSE
    /\ conversation_history' = NoInstance
    /\ calls' = <<>>
    /\ loaded' = <<>>
    /\ last' = Outcome("exit", 0, "none", "returned")
    /\ UNCHANGED <<store, clock, asked, srvVars, recVars>>

\* memory.get_recent_context(limit), as the backstories call it
GetRecentContext(limit) ==
    /\ running
    /\ last' = Outcome("get_recent_context", 0, "none",
                       IF ReadRaises(conversation_history) THEN "raised" ELSE "returned")
    /\ UNCHANGED <<store, running, conversation_history, clock, calls, loaded, asked,
                   srvVars, recVars>>

\* memory.get_conversation_summary()
GetConversationSummary ==
    /\ running
    /\ last' = Outcome("get_conversation_summary", 0, "none",
                       IF ReadRaises(conversation_history) THEN "raised" ELSE "returned")
    /\ UNCHANGED <<store, running, conversation_history, clock, calls, loaded, asked,
                   srvVars, recVars>>

NoRequests ==
    /\ pc = <<>> /\ req = <<>> /\ res = <<>> /\ tmp = <<>> /\ resp = <<>>

NoRecommendation ==
    /\ rin = <<>> /\ rout = <<>>

\* The question of the n-th turn of an earlier stretch of a session: the
\* sample questions in turn.
QuestionAt(n) == ((n - 1) % Len(Questions)) + 1

\* The history of a first session (no memory file before it) after its first
\* n questions, each answered and saved.
RECURSIVE SessionHistory(_)
SessionHistory(n) ==
    IF n = 0 THEN JsonList(<<>>)
    ELSE LET q == QuestionAt(n)
             tasks == create_tasks(Questions[q], classify_question(Questions[q]))
         IN  add_conversation(SessionHistory(n - 1),
                              NewTurn(n, q, kickoff(tasks, 0, TRUE)))

\* The state of the memory after n questions of a first session
SessionAfter(n) ==
    /\ clock = n
    /\ asked = 0
    /\ loaded = <<>>
    /\ IF n = 0
       THEN /\ store = Missing
            /\ running = FALSE
            /\ conversation_history = NoInstance
            /\ calls = <<>>
            /\ last = Outcome("init", 0, "none", "returned")
       ELSE /\ store = save_memory(Missing, SessionHistory(n), "ok")
            /\ running = TRUE
            /\ conversation_history = SessionHistory(n)
            /\ calls = SessionHistory(n).items
            /\ last = Outcome("process_query", QuestionAt(n), "completed", "returned")

\* A new process on a machine where the student has no memory file yet, or
\* that process some questions later.
Init ==
    /\ \E n \in 0..max_history : SessionAfter(n)
    /\ NoRequests
    /\ NoRecommendation

Next ==
    \/ \E io_ok \in BOOLEAN : Construct(io_ok)
    \/ \E q \in Asked, fail_at \in 0..MaxStages, db_ok \in BOOLEAN, save_outcome \in SaveOutcomes :
          ProcessQuery(q, fail_at, db_ok, save_outcome)
    \/ \E q \in Asked : KilledInPipeline(q)
    \/ \E q \in Asked : KilledInSave(q)
    \/ Exit
    \/ \E limit \in {2, 3} : GetRecentContext(limit)
    \/ GetConversationSummary

Spec == Init /\ [][Next]_vars

----------------------------------------------------------------------------
(* The server (app.py): chat requests run process_query on worker threads  *)
(* of the default executor, all on the student's one cached AgentSystem.   *)

Requests == 1..MaxRequests

\* ChatResponse, or the HTTPException raised instead
Response(status, success, kind) == [status |-> status, success |-> success, kind |-> kind]
NoResponse == Response(0, FALSE, "none")

\* what a worker thread holds about its call of process_query
NoResult == [status |-> "none", output |-> "none", db_failed |-> FALSE,
             recorded |-> 0, save |-> "none"]

\* lengths of the history a student's file holds when the server starts
StartLengths == {0, max_history - 1, max_history}

InitServer ==
    /\ \E n \in StartLengths :
          /\ clock = n
          /\ store = IF n = 0 THEN Missing ELSE save_memory(Missing, SessionHistory(n), "ok")
    /\ running = FALSE
    /\ conversation_history = NoInstance
    /\ asked = 0
    /\ calls = <<>>
    /\ loaded = <<>>
    /\ last = Outcome("init", 0, "none", "returned")
    /\ pc = [t \in Requests |-> "new"]
    /\ req = [t \in Requests |-> 0]
    /\ res = [t \in Requests |-> NoResult]
    /\ tmp = [t \in Requests |-> <<>>]
    /\ resp = [t \in Requests |-> NoResponse]
    /\ NoRecommendation

\* chat(), lines 114-141: check the request, authenticate against the
\* database again, make or reuse the student's AgentSystem, and hand the
\* question to process_query_async.  q = 0 is an empty message.
Chat(t, q, auth) ==
    /\ pc[t] = "new"
    /\ req' = [req EXCEPT ![t] = q]
    /\ IF q = 0
       THEN /\ resp' = [resp EXCEPT ![t] = Response(400, FALSE, "error")]
            /\ pc' = [pc EXCEPT ![t] = "done"]
            /\ UNCHANGED <<running, conversation_history, loaded>>
       ELSE IF auth = "db_down"
       THEN /\ resp' = [resp EXCEPT ![t] = Response(500, FALSE, "error")]
            /\ pc' = [pc EXCEPT ![t] = "done"]
            /\ UNCHANGED <<running, conversation_history, loaded>>
       ELSE IF auth = "unknown"
       THEN /\ resp' = [resp EXCEPT ![t] = Response(401, FALSE, "error")]
            /\ pc' = [pc EXCEPT ![t] = "done"]
            /\ UNCHANGED <<running, conversation_history, loaded>>
       ELSE IF running
       THEN /\ pc' = [pc EXCEPT ![t] = "kickoff"]
            /\ UNCHANGED <<resp, running, conversation_history, loaded>>
       ELSE LET h == load_memory(store, TRUE) IN
            IF ReadRaises(h)
            THEN /\ resp' = [resp EXCEPT ![t] = Response(500, FALSE, "error")]
                 /\ pc' = [pc EXCEPT ![t] = "done"]
                 /\ UNCHANGED <<running, conversation_history, loaded>>
            ELSE /\ running' = TRUE
                 /\ conversation_history' = h
                 /\ loaded' = h.items
                 /\ pc' = [pc EXCEPT ![t] = "kickoff"]
                 /\ UNCHANGED resp
    /\ UNCHANGED <<store, clock, calls, last, asked, res, tmp, recVars>>

\* process_query on a worker thread, lines 396-412: classify, build the
\* tasks, run the crew.  When kickoff raises, process_query_async catches the
\* exception and returns the apology text, and chat wraps what it got in
\* ChatResponse(success=True).
Kickoff(t, fail_at, db_ok) ==
    /\ pc[t] = "kickoff"
    /\ LET question == Questions[req[t]]
           tasks == create_tasks(question, classify_question(question))
           result == kickoff(tasks, fail_at, db_ok)
       IN  /\ fail_at \in 0..Len(tasks)
           /\ res' = [res EXCEPT ![t] = [status |-> result.status, output |-> result.output,
                                         db_failed |-> ~db_ok, recorded |-> 0,
                                         save |-> "none"]]
           /\ IF WritesTurn(result)
              THEN /\ pc' = [pc EXCEPT ![t] = "append"]
                   /\ UNCHANGED resp
              ELSE /\ pc' = [pc EXCEPT ![t] = "done"]
                   /\ resp' = [resp EXCEPT ![t] = Response(200, TRUE, "apology")]
    /\ UNCHANGED <<store, running, conversation_history, clock, calls, loaded, last, asked,
                   req, tmp, recVars>>

\* add_conversation, lines 64-71: build the record and append it to the list
\* the instance holds
AppendTurn(t) ==
    /\ pc[t] = "append"
    /\ LET conversation == NewTurn(clock + 1, req[t], res[t]) IN
       /\ conversation_history' = JsonList(Append(conversation_history.items, conversation))
       /\ calls' = Append(calls, conversation)
       /\ clock' = clock + 1
       /\ res' = [res EXCEPT ![t].recorded = clock + 1]
    /\ pc' = [pc EXCEPT ![t] = "trim"]
    /\ UNCHANGED <<store, running, loaded, last, asked, req, tmp, resp, recVars>>

\* add_conversation, lines 74-75: the length test and the slice, whose
\* result the thread holds until it is assigned
TrimTest(t) ==
    /\ pc[t] = "trim"
    /\ IF NeedsTrim(conversation_history.items)
       THEN /\ tmp' = [tmp EXCEPT ![t] = TrimSlice(conversation_history.items)]
            /\ pc' = [pc EXCEPT ![t] = "assign"]
       ELSE /\ pc' = [pc EXCEPT ![t] = "save"]
            /\ UNCHANGED tmp
    /\ UNCHANGED <<store, running, conversation_history, clock, calls, loaded, last, asked,
                   req, res, resp, recVars>>

\* add_conversation, line 75: self.conversation_history = <the slice>
TrimAssign(t) ==
    /\ pc[t] = "assign"
    /\ conversation_history' = JsonList(tmp[t])
    /\ pc' = [pc EXCEPT ![t] = "save"]
    /\ UNCHANGED <<store, running, clock, calls, loaded, last, asked, req, res, tmp, resp,
                   recVars>>

\* _save_memory, line 57: open(.., 'w') truncates the file, or raises
SaveOpen(t, ok) ==
    /\ pc[t] = "save"
    /\ IF ok
       THEN /\ store' = Garbage
            /\ pc' = [pc EXCEPT ![t] = "dump"]
            /\ UNCHANGED res
       ELSE /\ res' = [res EXCEPT ![t].save = "open_fails"]
            /\ pc' = [pc EXCEPT ![t] = "return"]
            /\ UNCHANGED store
    /\ UNCHANGED <<running, conversation_history, clock, calls, loaded, last, asked,
                   req, tmp, resp, recVars>>

\* _save_memory, line 58: json.dump of the history the instance holds now
SaveDump(t, ok) ==
    /\ pc[t] = "dump"
    /\ IF ok
       THEN /\ store' = FileOf(json_dump(conversation_history))
            /\ res' = [res EXCEPT ![t].save = "ok"]
       ELSE /\ res' = [res EXCEPT ![t].save = "write_fails"]
            /\ UNCHANGED store
    /\ pc' = [pc EXCEPT ![t] = "return"]
    /\ UNCHANGED <<running, conversation_history, clock, calls, loaded, last, asked,
                   req, tmp, resp, recVars>>

\* process_query returns the result; chat answers ChatResponse(success=True)
Return(t) ==
    /\ pc[t] = "return"
    /\ resp' = [resp EXCEPT ![t] = Response(200, TRUE, "answer")]
    /\ pc' = [pc EXCEPT ![t] = "done"]
    /\ UNCHANGED <<store, running, conversation_history, clock, calls, loaded, last, asked,
                   req, res, tmp, recVars>>

AuthOutcomes == {"ok", "db_down", "unknown"}

NextServer ==
    \/ \E t \in Requests, q \in {0} \cup QIds, auth \in AuthOutcomes : Chat(t, q, auth)
    \/ \E t \in Requests, fail_at \in 0..MaxStages, db_ok \in BOOLEAN : Kickoff(t, fail_at, db_ok)
    \/ \E t \in Requests : AppendTurn(t)
    \/ \E t \in Requests : TrimTest(t)
    \/ \E t \in Requests : TrimAssign(t)
    \/ \E t \in Requests, ok \in BOOLEAN : SaveOpen(t, ok)
    \/ \E t \in Requests, ok \in BOOLEAN : SaveDump(t, ok)
    \/ \E t \in Requests : Return(t)

SpecServer == InitServer /\ [][NextServer]_vars

\* Memory files that do not hold a well-formed turn list
StaleStores ==
    { Missing, Garbage, FileOf(JsonOther("object")), FileOf(JsonOther("empty_object")),
      FileOf(JsonOther("null")) }

WellFormed(file) == file.kind = "text" /\ file.doc.tag = "list"

\* A new process that finds a missing or damaged memory file
InitStale ==
    /\ store \in StaleStores
    /\ running = FALSE
    /\ conversation_history = NoInstance
    /\ clock = 0
    /\ asked = 0
    /\ calls = <<>>
    /\ loaded = <<>>
    /\ last = Outcome("init", 0, "none", "returned")
    /\ NoRequests
    /\ NoRecommendation

SpecStale == InitStale /\ [][Next]_vars

----------------------------------------------------------------------------
(* The recommendation engine (tools/recommendation_tool.py) as a function   *)
(* of its arguments and of what its queries return.                         *)

DefaultMaxCredits == 21     \* max_credits or 21
QueryLimit == 50            \* LIMIT 50
PrefixLen == 5              \* course_code[:5]
required_total == 130
required_major == 60
required_liberal == 30

\* '교양기초', '교양선택', '핵심교양'
LiberalTypes == {"gyoyanggicho", "gyoyangseontaek", "haeksimgyoyang"}

\* a row of the courses table; course_code is its string, one token a character
Course(code, credits, course_type, department) ==
    [course_code |-> code, credits |-> credits, course_type |-> course_type,
     department |-> department]

\* The rows the courses table may hold, in the order of
\* ORDER BY c.course_type, c.course_name.  CS10101 and CS10102, and GE10101
\* and GE10102, are sections of one course: they share the first five
\* characters of the code.
Catalog ==
    << Course(<<"G", "E", "1", "0", "1", "0", "1">>, 2, "gyoyanggicho", "GE"),
       Course(<<"G", "E", "1", "0", "1", "0", "2">>, 2, "gyoyanggicho", "GE"),
       Course(<<"G", "E", "2">>, 3, "gyoyangseontaek", "GE"),
       Course(<<"C", "S", "1", "0", "1", "0", "1">>, 3, "jeongongpilsu", "CS"),
       Course(<<"C", "S", "1", "0", "1", "0", "2">>, 3, "jeongongpilsu", "CS"),
       Course(<<"C", "S", "2", "0", "1", "0", "1">>, 3, "jeongongpilsu", "CS"),
       Course(<<"C", "S", "2", "0", "2", "0", "1">>, 3, "jeongongseontaek", "CS"),
       Course(<<"C", "S", "3", "0", "1", "0", "1">>, 4, "jeongongseontaek", "CS"),
       Course(<<"M", "A", "1", "0", "1", "0", "1">>, 3, "jeongongpilsu", "MA") >>

\* the rows of Catalog whose index is in keep, in Catalog's order
RECURSIVE Rows(_, _)
Rows(keep, i) ==
    IF i > Len(Catalog) THEN <<>>
    ELSE (IF i \in keep THEN <<Catalog[i]>> ELSE <<>>) \o Rows(keep, i + 1)

\* the students table: student_id -> major_code
Students == [S1 |-> "CS", S2 |-> "MA"]
StudentIds == {"S1", "S2", "S9"}

\* ten passed liberal courses of three credits each
PassedLiberal ==
    LET digit == <<"0", "1", "2", "3", "4", "5", "6", "7", "8", "9">> IN
    [i \in 1..10 |-> Course(<<"G", "E", "9", "0", digit[i]>>, 3, "haeksimgyoyang", "GE")]

\* a liberal-arts course offered by the computer science department
OwnLiberal ==
    << Course(<<"C", "S", "1", "0", "1", "0", "2">>, 3, "jeongongpilsu", "CS"),
       Course(<<"C", "S", "9", "0", "1", "0", "1">>, 3, "gyoyangseontaek", "CS") >>

\* a transcript beyond every requirement: 21 major courses, 11 liberal
\* courses and 12 courses of another department, three credits each
LongTranscript ==
    LET digit == <<"0", "1", "2", "3", "4", "5", "6", "7", "8", "9">>
        code(letters, i) == letters \o <<"8", digit[(i \div 10) + 1], digit[(i % 10) + 1]>>
    IN  [i \in 1..44 |->
            IF i <= 21 THEN Course(code(<<"C", "S">>, i), 3, "jeongongpilsu", "CS")
            ELSE IF i <= 32 THEN Course(code(<<"G", "E">>, i), 3, "gyoyanggicho", "GE")
            ELSE Course(code(<<"M", "A">>, i), 3, "jeongongpilsu", "MA")]

\* what _get_completed_courses may return
CompletedLists ==
    { <<>>,
      << Course(<<"C", "S", "1", "0", "1", "0", "2">>, 3, "jeongongpilsu", "CS"),
         Course(<<"G", "E", "2">>, 3, "gyoyangseontaek", "GE") >>,
      PassedLiberal,
      OwnLiberal,
      LongTranscript }

\* the max_credits argument: None, or an int
NoneInt == [given |-> FALSE, value |-> 0]
SomeInt(n) == [given |-> TRUE, value |-> n]
MaxCreditsArgs == {NoneInt} \cup {SomeInt(n) : n \in {0, 2, 3, 7, 10, 18, 21}}

\* the semester argument: None, or a string
SemesterArgs == {"None", "2024-2"}

\* bool(x) of an Optional[int], as `x or 21` tests it
TruthyInt(x) == x.given /\ x.value # 0

\* _get_next_semester, lines 88-91
get_next_semester == "2025-2"

\* _get_student_info, lines 93-113: the row of the student, or None
get_student_info(student_id) ==
    IF student_id \in DOMAIN Students
    THEN [found |-> TRUE, student_id |-> student_id, major_code |-> Students[student_id]]
    ELSE [found |-> FALSE, student_id |-> student_id, major_code |-> "None"]

\* course_code[:5]
Prefix(course) == SliceFirst(course.course_code, PrefixLen)

\* _remove_duplicate_courses, lines 164-175, on the courses from index i on
RECURSIVE RemoveLoop(_, _, _)
RemoveLoop(courses, unique_courses, seen_prefixes) ==
    IF courses = <<>> THEN unique_courses
    ELSE LET course == Head(courses) IN
         IF Prefix(course) \notin seen_prefixes
         THEN RemoveLoop(Tail(courses), Append(unique_courses, course),
                         seen_prefixes \cup {Prefix(course)})
         ELSE RemoveLoop(Tail(courses), unique_courses, seen_prefixes)

remove_duplicate_courses(courses) == RemoveLoop(courses, <<>>, {})

\* the SELECT of _get_available_courses, lines 144-159
QueryAvailable(table, major_code) ==
    SliceFirst(SelectSeq(table, LAMBDA c : c.department = major_code
                                           \/ c.course_type \in LiberalTypes),
               QueryLimit)

\* _get_available_courses, lines 139-162 (the semester is not used)
get_available_courses(table, semester, major_code) ==
    remove_duplicate_courses(QueryAvailable(table, major_code))

\* sum(course['credits'] for course in courses)
RECURSIVE SumCredits(_)
SumCredits(courses) ==
    IF courses = <<>> THEN 0 ELSE Head(courses).credits + SumCredits(Tail(courses))

\* _calculate_graduation_progress, lines 177-202
calculate_graduation_progress(student_info, completed_courses) ==
    LET total_credits == SumCredits(completed_courses)
        major_credits == SumCredits(SelectSeq(completed_courses,
                            LAMBDA c : c.department = student_info.major_code))
        liberal_credits == SumCredits(SelectSeq(completed_courses,
                            LAMBDA c : c.course_type \in LiberalTypes))
    IN  [total_credits |-> total_credits,
         major_credits |-> major_credits,
         liberal_credits |-> liberal_credits,
         required_total |-> required_total,
         required_major |-> required_major,
         required_liberal |-> required_liberal,
         remaining_total |-> Max(0, required_total - total_credits),
         remaining_major |-> Max(0, required_major - major_credits),
         remaining_liberal |-> Max(0, required_liberal - liberal_credits)]

\* (a variant that never finds the course among the completed ones)
is_already_taken_never(course, completed_courses) == FALSE

\* _is_already_taken, lines 269-272
is_already_taken(course, completed_courses) ==
    \E i \in 1..Len(completed_courses) : Prefix(completed_courses[i]) = Prefix(course)

\* (a variant that never finds the course among the recommendations)
is_already_recommended_never(course, recommendations) == FALSE

\* _is_already_recommended, lines 274-277
is_already_recommended(course, recommendations) ==
    \E i \in 1..Len(recommendations) : Prefix(recommendations[i].course) = Prefix(course)

\* _recommend_major_courses, lines 244-249
recommend_major_courses(available_courses, completed_courses, major_code, progress) ==
    SliceFirst(SelectSeq(available_courses,
                         LAMBDA c : c.department = major_code
                                    /\ ~is_already_taken(c, completed_courses)), 3)

\* (a variant that offers liberal-arts courses whatever the progress is)
recommend_liberal_courses_always(available_courses, completed_courses, major_code, progress) ==
    SliceFirst(SelectSeq(available_courses,
                         LAMBDA c : c.course_type \in LiberalTypes
                                    /\ ~is_already_taken(c, completed_courses)), 2)

\* _recommend_liberal_courses, lines 251-260
recommend_liberal_courses(available_courses, completed_courses, major_code, progress) ==
    IF progress.remaining_liberal <= 0 THEN <<>>
    ELSE SliceFirst(SelectSeq(available_courses,
                              LAMBDA c : c.course_type \in LiberalTypes
                                         /\ ~is_already_taken(c, completed_courses)), 2)

\* (a variant that offers the last two candidates instead of the first two)
recommend_elective_courses_last(available_courses, completed_courses, major_code, progress) ==
    SliceLast(SelectSeq(available_courses,
                        LAMBDA c : c.department = major_code
                                   /\ ~is_already_taken(c, completed_courses)), 2)

\* _recommend_elective_courses, lines 262-267
recommend_elective_courses(available_courses, completed_courses, major_code, progress) ==
    SliceFirst(SelectSeq(available_courses,
                         LAMBDA c : c.department = major_code
                                    /\ ~is_already_taken(c, completed_courses)), 2)

\* the recommendations' credits: current_credits of _generate_recommendations
CurrentCredits(recommendations) ==
    SumCredits([i \in 1..Len(recommendations) |-> recommendations[i].course])

\* lines 229-240: the loop over one strategy's candidates
RECURSIVE CandidateLoop(_, _, _, _)
CandidateLoop(recommendations, candidates, priority, max_credits) ==
    IF candidates = <<>> THEN recommendations
    ELSE LET course == Head(candidates) IN
         IF /\ CurrentCredits(recommendations) + course.credits <= max_credits
            /\ ~is_already_recommended(course, recommendations)
         THEN LET added == Append(recommendations,
                                  [course |-> course, priority |-> priority])
              IN  IF CurrentCredits(added) >= max_credits
                  THEN added
                  ELSE CandidateLoop(added, Tail(candidates), priority, max_credits)
         ELSE CandidateLoop(recommendations, Tail(candidates), priority, max_credits)

\* lines 214-218 and 224-227: the candidates of the strategy of a priority
Strategy(priority, available_courses, completed_courses, major_code, progress) ==
    IF priority = 1
    THEN recommend_major_courses(available_courses, completed_courses, major_code, progress)
    ELSE IF priority = 2
    THEN recommend_liberal_courses(available_courses, completed_courses, major_code, progress)
    ELSE recommend_elective_courses(available_courses, completed_courses, major_code, progress)

\* lines 220-240: the loop over the three strategies
RECURSIVE StrategyLoop(_, _, _, _, _, _, _)
StrategyLoop(recommendations, priority, available_courses, completed_courses, major_code, progress, max_credits) ==
    IF priority > 3 \/ CurrentCredits(recommendations) >= max_credits
    THEN recommendations
    ELSE StrategyLoop(
            CandidateLoop(recommendations,
                          Strategy(priority, available_courses, completed_courses,
                                   major_code, progress),
                          priority, max_credits),
            priority + 1, available_courses, completed_courses, major_code, progress,
            max_credits)

\* _generate_recommendations, lines 204-242
generate_recommendations(student_info, completed_courses, available_courses, max_credits) ==
    StrategyLoop(<<>>, 1, available_courses, completed_courses, student_info.major_code,
                 calculate_graduation_progress(student_info, completed_courses),
                 max_credits)

NoProgress == calculate_graduation_progress(get_student_info("S9"), <<>>)

\* what a call returned, and the values it computed on the way
Returned(op, kind, semester, max_credits, queried, pool, progress, recommendations) ==
    [op |-> op, kind |-> kind, semester |-> semester, max_credits |-> max_credits,
     queried |-> queried, pool |-> pool, progress |-> progress,
     recommendations |-> recommendations]

NotCalled == Returned("none", "none", "None", 0, <<>>, <<>>, NoProgress, <<>>)

\* The arguments of a call and the rows its queries find
InitRec ==
    /\ \E student_id \in StudentIds, keep \in SUBSET (1..Len(Catalog)),
          completed \in CompletedLists, max_credits \in MaxCreditsArgs,
          semester \in SemesterArgs :
          rin = [student_id |-> student_id, table |-> Rows(keep, 1),
                 completed |-> completed, max_credits |-> max_credits,
                 semester |-> semester]
    /\ rout = NotCalled
    /\ store = Missing
    /\ running = FALSE
    /\ conversation_history = NoInstance
    /\ clock = 0
    /\ asked = 0
    /\ calls = <<>>
    /\ loaded = <<>>
    /\ last = Outcome("init", 0, "none", "returned")
    /\ NoRequests

\* _run, lines 54-86.  db_ok = FALSE: the database cannot be reached, the
\* first query raises and _run returns the error text.
Run(db_ok) ==
    /\ rout.op = "none"
    /\ LET max_credits == IF TruthyInt(rin.max_credits)
                          THEN rin.max_credits.value ELSE DefaultMaxCredits
           semester == IF rin.semester # "None" THEN rin.semester ELSE get_next_semester
           student_info == get_student_info(rin.student_id)
           queried == QueryAvailable(rin.table, student_info.major_code)
           available_courses == get_available_courses(rin.table, semester,
                                                      student_info.major_code)
           progress == calculate_graduation_progress(student_info, rin.completed)
           recommendations == generate_recommendations(student_info, rin.completed,
                                                       available_courses, max_credits)
       IN  rout' =
             IF ~db_ok
             THEN Returned("run", "error", semester, max_credits, <<>>, <<>>,
                           NoProgress, <<>>)
             ELSE IF ~student_info.found
             THEN Returned("run", "not_found", semester, max_credits, <<>>, <<>>,
                           NoProgress, <<>>)
             ELSE Returned("run",
                           IF recommendations = <<>> THEN "nothing" ELSE "listing",
                           semester, max_credits, queried, available_courses, progress,
                           recommendations)
    /\ UNCHANGED <<rin, memVars, srvVars>>

\* _generate_recommendations called with the rows as they are and an int
GenerateRecommendations ==
    /\ rout.op = "none"
    /\ rin.max_credits.given
    /\ LET student_info == get_student_info(rin.student_id) IN
       rout' = Returned("generate", "list", rin.semester, rin.max_credits.value,
                        rin.table, rin.table,
                        calculate_graduation_progress(student_info, rin.completed),
                        generate_recommendations(student_info, rin.completed, rin.table,
                                                 rin.max_credits.value))
    /\ UNCHANGED <<rin, memVars, srvVars>>

\* _remove_duplicate_courses called with the rows as they are
RemoveDuplicateCourses ==
    /\ rout.op = "none"
    /\ rout' = Returned("remove_duplicate_courses", "list", rin.semester, 0,
                        rin.table, remove_duplicate_courses(rin.table), NoProgress, <<>>)
    /\ UNCHANGED <<rin, memVars, srvVars>>

NextRec ==
    \/ \E db_ok \in BOOLEAN : Run(db_ok)
    \/ GenerateRecommendations
    \/ RemoveDuplicateCourses

SpecRec == InitRec /\ [][NextRec]_vars

----------------------------------------------------------------------------
(* The semester calendar (semester_utils.py)                                *)

\* the days of a month of the Gregorian calendar
IsLeap(year) == (year % 4 = 0 /\ year % 100 # 0) \/ year % 400 = 0
DaysIn(year, month) ==
    IF month = 2 THEN (IF IsLeap(year) THEN 29 ELSE 28)
    ELSE IF month \in {4, 6, 9, 11} THEN 30 ELSE 31

\* datetime.now(), as far as get_current_semester_info reads it
Date(year, month, day) == [year |-> year, month |-> month, day |-> day]

\* (a variant whose first term ends before June 20)
InTerm1Short(current_month, current_day) ==
    current_month = 3 \/ current_month = 4 \/ current_month = 5
    \/ (current_month = 6 /\ current_day < 20)

\* line 31: the condition of the first term, March to June 20
InTerm1(current_month, current_day) ==
    current_month = 3 \/ current_month = 4 \/ current_month = 5
    \/ (current_month = 6 /\ current_day <= 20)

\* line 42: the condition of the second term, September to December 20
InTerm2(current_month, current_day) ==
    current_month = 9 \/ current_month = 10 \/ current_month = 11
    \/ (current_month = 12 /\ current_day <= 20)

\* (a variant without the step into the next year at the end of December)
next_year_same(current_year, current_month) == current_year

\* line 61: next_year of the summer and late-December branch
next_year_of(current_year, current_month) ==
    IF current_month = 12 THEN current_year + 1 ELSE current_year

\* SemesterManager.get_current_semester_info, lines 12-70, for now = the date
get_current_semester_info(now) ==
    LET current_year == now.year
        current_month == now.month
        current_day == now.day
        Info(cs, csy, ns, nsy, ps, psy) ==
            [current_date |-> now,
             current_semester |-> cs, current_semester_year |-> csy,
             next_semester |-> ns, next_semester_year |-> nsy,
             prev_semester |-> ps, prev_semester_year |-> psy]
    IN
    IF InTerm1(current_month, current_day)
    THEN Info(SomeInt(1), SomeInt(current_year), SomeInt(2), SomeInt(current_year),
              SomeInt(2), SomeInt(current_year - 1))
    ELSE IF InTerm2(current_month, current_day)
    THEN Info(SomeInt(2), SomeInt(current_year), SomeInt(1), SomeInt(current_year + 1),
              SomeInt(1), SomeInt(current_year))
    ELSE IF current_month \in {1, 2}
    THEN Info(NoneInt, NoneInt, SomeInt(1), SomeInt(current_year),
              SomeInt(2), SomeInt(current_year - 1))
    ELSE LET next_year == next_year_of(current_year, current_month) IN
         Info(NoneInt, NoneInt,
              SomeInt(IF current_month <= 8 THEN 2 ELSE 1),
              SomeInt(IF current_month = 12 THEN next_year ELSE current_year),
              SomeInt(IF current_month <= 8 THEN 1 ELSE 2),
              SomeInt(current_year))

\* the years of the days on which the calendar is asked
CalendarYears == {2024, 2025}

\* every day of those years
CalendarDates ==
    {d \in {Date(year, month, day) : year \in CalendarYears, month \in 1..12,
                                     day \in 1..31} :
        d.day <= DaysIn(d.year, d.month)}

NotAsked ==
    [op |-> "none", info |-> get_current_semester_info(Date(2024, 1, 1))]

\* datetime.now() of a call
InitCalendar ==
    /\ \E now \in CalendarDates : rin = [now |-> now]
    /\ rout = NotAsked
    /\ store = Missing
    /\ running = FALSE
    /\ conversation_history = NoInstance
    /\ clock = 0
    /\ asked = 0
    /\ calls = <<>>
    /\ loaded = <<>>
    /\ last = Outcome("init", 0, "none", "returned")
    /\ NoRequests

\* SemesterManager.get_current_semester_info()
GetCurrentSemesterInfo ==
    /\ rout.op = "none"
    /\ rout' = [op |-> "get_current_semester_info",
                info |-> get_current_semester_info(rin.now)]
    /\ UNCHANGED <<rin, memVars, srvVars>>

NextCalendar == GetCurrentSemesterInfo

SpecCalendar == InitCalendar /\ [][NextCalendar]_vars

----------------------------------------------------------------------------
(* Query texts and regular expressions (query_parser.py, base_tool.py)      *)
(* Latin letters are one token each; the texts use the capitals of grades   *)
(* and abbreviations and the lower-case letters of "select" only, so no     *)
(* Latin letter token coincides with a romanised syllable.                  *)

\* \w: a letter, a syllable or a digit
IsWord(c) == c \notin {SP, "-", "+"}

\* the literal lit stands at position i of s
At(s, i, lit) ==
    i >= 1 /\ i + Len(lit) - 1 <= Len(s) /\ SubSeq(s, i, i + Len(lit) - 1) = lit

\* the least and the greatest element of a non-empty set of integers
Least(S) == CHOOSE x \in S : \A y \in S : x <= y
Greatest(S) == CHOOSE x \in S : \A y \in S : x >= y

NoMatch == [found |-> FALSE, i |-> 0, e |-> 0, j |-> 0]

\* re.search of  \w+ lit  (spaces = FALSE) or  \w+\s*lit  (spaces = TRUE),
\* with the lookahead (?!neg) after lit when neg # "": the leftmost start i,
\* and for it the longest \w+ (s[i..e]); lit stands at j.
WordLitSearch(s, lit, spaces, neg) ==
    LET ok(i, e, j) ==
            /\ \A k \in i..e : IsWord(s[k])
            /\ \A k \in (e + 1)..(j - 1) : s[k] = SP
            /\ (spaces \/ j = e + 1)
            /\ At(s, j, lit)
            /\ (neg = "" \/ ~(j + Len(lit) <= Len(s) /\ s[j + Len(lit)] = neg))
        starts == {i \in 1..Len(s) : \E e \in i..Len(s), j \in (i + 1)..Len(s) :
                                        e < j /\ ok(i, e, j)}
    IN  IF starts = {} THEN NoMatch
        ELSE LET i == Least(starts)
                 e == Greatest({x \in i..Len(s) : \E j \in (x + 1)..Len(s) : ok(i, x, j)})
                 j == Least({y \in (e + 1)..Len(s) : ok(i, e, y)})
             IN  [found |-> TRUE, i |-> i, e |-> e, j |-> j]

\* re.search of  [chars] lit : the leftmost position of a token of chars
\* directly followed by lit (0 when there is none)
CharLitSearch(s, chars, lit) ==
    LET at == {i \in 1..Len(s) : s[i] \in chars /\ At(s, i + 1, lit)} IN
    IF at = {} THEN 0 ELSE Least(at)

\* a value of a conditions dict: None, a str, a list of str, or an int
NoneVal == [kind |-> "none", value |-> <<>>, number |-> 0]
StrVal(text) == [kind |-> "str", value |-> <<text>>, number |-> 0]
ListVal(texts) == [kind |-> "list", value |-> texts, number |-> 0]
IntVal(n) == [kind |-> "int", value |-> <<>>, number |-> n]

\* bool(v)
TruthyVal(v) ==
    CASE v.kind = "none" -> FALSE
      [] v.kind = "str" -> v.value[1] # <<>>
      [] v.kind = "list" -> v.value # <<>>
      [] OTHER -> v.number # 0

\* QueryParser.SYNONYM_MAPPING, lines 12-29, in source order
SYNONYM_MAPPING == <<
    << <<"guk", "mun", "hak">>, <<"han", "guk", "eo", "mun", "hak">>,
       <<"han", "guk", "mun", "hak">>, <<"guk", "eo", "guk", "mun", "hak">> >>,
    << <<"guk", "mun">>, <<"han", "guk", "eo", "mun">>, <<"han", "guk", "mun">>,
       <<"guk", "eo", "guk", "mun">> >>,
    << <<"yeong", "mun", "hak">>, <<"yeong", "eo", "yeong", "mun", "hak">>,
       <<"yeong", "eo", "mun", "hak">> >>,
    << <<"yeong", "mun">>, <<"yeong", "eo", "yeong", "mun">>, <<"yeong", "eo">> >>,
    << <<"jung", "mun", "hak">>, <<"jung", "guk", "hak">>, <<"jung", "guk", "eo", "mun">> >>,
    << <<"jung", "mun">>, <<"jung", "guk">>, <<"jung", "guk", "eo">> >>,
    << <<"sim", "ri", "hak">>, <<"sim", "ri">> >>,
    << <<"gyeong", "yeong", "hak">>, <<"gyeong", "yeong">>,
       <<"gi", "eop", "gyeong", "yeong">> >>,
    << <<"keom", "pyu", "teo">>, <<"so", "peu", "teu", "we", "eo">>, <<"S", "W">>,
       <<"I", "T">>, <<"in", "gong", "ji", "neung">>, <<"A", "I">> >>,
    << <<"su", "hak">>, <<"eung", "yong", "su", "hak">>, <<"tong", "gye">> >>,
    << <<"mul", "ri">>, <<"mul", "ri", "hak">>, <<"eung", "yong", "mul", "ri">> >>,
    << <<"hwa", "hak">>, <<"eung", "yong", "hwa", "hak">>, <<"saeng", "hwa", "hak">> >>,
    << <<"yeok", "sa">>, <<"han", "guk", "yeok", "sa">>, <<"se", "gye", "sa">> >>,
    << <<"mi", "sul">>, <<"hoe", "hwa">>, <<"jo", "hyeong">>, <<"di", "ja", "in">> >>,
    << <<"eum", "ak">>, <<"seong", "ak">>, <<"pi", "aa", "no">>, <<"gwan", "hyeon", "ak">> >>,
    << <<"che", "yuk">>, <<"seu", "po", "cheu">>, <<"un", "dong">> >>
>>

\* QueryParser.SUBJECT_KEYWORDS, lines 32-37, in source order
SUBJECT_KEYWORDS == <<
    <<"sim", "ri", "hak">>, <<"sim", "ri">>, <<"su", "hak">>, <<"yeong", "eo">>,
    <<"mul", "ri", "hak">>, <<"hwa", "hak">>, <<"saeng", "mul", "hak">>,
    <<"yeok", "sa">>, <<"cheol", "hak">>, <<"gyeong", "je", "hak">>,
    <<"gyeong", "yeong", "hak">>, <<"keom", "pyu", "teo">>,
    <<"peu", "ro", "geu", "rae", "ming">>, <<"de", "i", "teo">>,
    <<"in", "gong", "ji", "neung">>, <<"A", "I">>, <<"meo", "sin", "reo", "ning">>,
    <<"tong", "gye">>, <<"guk", "mun", "hak">>, <<"guk", "mun">>,
    <<"yeong", "mun", "hak">>, <<"yeong", "mun">>, <<"jung", "mun", "hak">>,
    <<"jung", "mun">>
>>

\* QueryParser.ENROLLMENT_TYPES, lines 40-47, in source order
ENROLLMENT_TYPES == <<
    [korean |-> <<"jeon", "gong", "pil", "su">>, eng |-> <<"major_required">>],
    [korean |-> <<"jeon", "gong", "seon", "taek">>, eng |-> <<"major_elective">>],
    [korean |-> <<"gyo", "yang", "pil", "su">>, eng |-> <<"general_required">>],
    [korean |-> <<"gyo", "yang", "seon", "taek">>, eng |-> <<"general_elective">>],
    [korean |-> <<"gyo", "yang">>, eng |-> <<"general">>],
    [korean |-> <<"jeon", "gong">>, eng |-> <<"major">>]
>>

\* x in xs, for a list xs
Member(xs, x) == \E i \in 1..Len(xs) : xs[i] = x

\* QueryParser._apply_synonym_mapping, lines 149-155
apply_synonym_mapping(keyword) ==
    LET hits == {g \in 1..Len(SYNONYM_MAPPING) : Member(SYNONYM_MAPPING[g], keyword)} IN
    IF hits = {} THEN StrVal(keyword) ELSE ListVal(SYNONYM_MAPPING[Least(hits)])

\* the first keyword of SUBJECT_KEYWORDS that occurs in the query (0: none)
FirstSubjectKeyword(query) ==
    LET hits == {k \in 1..Len(SUBJECT_KEYWORDS) : Contains(query, SUBJECT_KEYWORDS[k])} IN
    IF hits = {} THEN 0 ELSE Least(hits)

\* lines 66-73: the four department patterns, tried in order; a pattern is
\* left for the next one when its match is one of the excluded words
DeptExcluded == { <<"gwa", "mok">>, <<"hak", "gwa">>, <<"jeon", "gong">>, <<"gang", "ui">> }

DeptGroup(query, pattern) ==
    LET m == CASE pattern = 1 -> WordLitSearch(query, <<"hak", "gwa">>, FALSE, "")
               [] pattern = 2 -> WordLitSearch(query, <<"gwa">>, FALSE, "mok")
               [] pattern = 3 -> WordLitSearch(query, <<"hak", "gwa">>, FALSE, "")
               [] OTHER -> WordLitSearch(query, <<"gwa">>, FALSE, "mok")
    IN  IF ~m.found THEN <<>>
        ELSE IF pattern = 1 THEN SubSeq(query, m.i, m.j + 1)
        ELSE IF pattern = 2 THEN SubSeq(query, m.i, m.j)
        ELSE SubSeq(query, m.i, m.e)

RECURSIVE DeptLoop(_, _)
DeptLoop(query, pattern) ==
    IF pattern > 4 THEN NoneVal
    ELSE LET dept_name == DeptGroup(query, pattern) IN
         IF dept_name # <<>> /\ dept_name \notin DeptExcluded
         THEN apply_synonym_mapping(dept_name)
         ELSE DeptLoop(query, pattern + 1)

\* QueryParser.parse_course_conditions, lines 49-86
parse_course_conditions(query) ==
    LET g == CharLitSearch(query, {"1", "2", "3", "4"}, <<"hak", "nyeon">>)
        k == FirstSubjectKeyword(query)
        p == WordLitSearch(query, <<"gyo", "su">>, TRUE, "")
    IN  [grade |-> IF g = 0 THEN NoneVal ELSE StrVal(<<query[g]>>),
         department |-> DeptLoop(query, 1),
         subject_keyword |-> IF k = 0 THEN NoneVal
                             ELSE apply_synonym_mapping(SUBJECT_KEYWORDS[k]),
         professor |-> IF p.found THEN StrVal(SubSeq(query, p.i, p.e)) ELSE NoneVal,
         course_type |-> NoneVal]

Digits == <<"0", "1", "2", "3", "4", "5", "6", "7", "8", "9">>
IsDigit(c) == Member(Digits, c)

\* int(c) for a digit c
DigitValue(c) == (CHOOSE d \in 1..10 : Digits[d] = c) - 1

\* the number of spaces of s from position i on
RECURSIVE SpacesFrom(_, _)
SpacesFrom(s, i) == IF i <= Len(s) /\ s[i] = SP THEN 1 + SpacesFrom(s, i + 1) ELSE 0

\* lines 100-104: a match of semester pattern 1, 2 or 3 that starts at i;
\* the result is the semester text, <<>> when the pattern does not match at i
SemesterAt(s, pattern, i) ==
    LET year == SubSeq(s, i, i + 3)
        four == i + 3 <= Len(s) /\ \A k \in i..(i + 3) : IsDigit(s[k])
        term(k) == IF k <= Len(s) /\ s[k] \in {"1", "2"} /\ At(s, k + 1, <<"hak", "gi">>)
                   THEN <<s[k]>> ELSE <<>>
    IN  CASE pattern = 1 ->
               IF ~four THEN <<>>
               ELSE IF i + 4 <= Len(s) /\ s[i + 4] = "-" /\ term(i + 5) # <<>>
               THEN year \o <<"-">> \o term(i + 5)
               ELSE IF term(i + 4) # <<>> THEN year \o <<"-">> \o term(i + 4)
               ELSE <<>>
          [] pattern = 2 ->
               IF four /\ At(s, i + 4, <<"nyeon">>)
                  /\ term(i + 5 + SpacesFrom(s, i + 5)) # <<>>
               THEN year \o <<"-">> \o term(i + 5 + SpacesFrom(s, i + 5))
               ELSE <<>>
          [] OTHER ->
               IF term(i) # <<>> THEN <<"2", "0", "2", "5", "-">> \o term(i) ELSE <<>>

\* re.search of a semester pattern: its leftmost match
SemesterSearch(s, pattern) ==
    LET at == {i \in 1..Len(s) : SemesterAt(s, pattern, i) # <<>>} IN
    IF at = {} THEN <<>> ELSE SemesterAt(s, pattern, Least(at))

RECURSIVE SemesterLoop(_, _)
SemesterLoop(query, pattern) ==
    IF pattern > 3 THEN NoneVal
    ELSE IF SemesterSearch(query, pattern) # <<>>
    THEN StrVal(SemesterSearch(query, pattern))
    ELSE SemesterLoop(query, pattern + 1)

GradeLetters == {"A", "B", "C", "D", "F"}

\* [ABCDF][+]? at position i: the text it takes (the "+" when there is one)
GradeText(s, i) ==
    IF i + 1 <= Len(s) /\ s[i + 1] = "+" THEN <<s[i], "+">> ELSE <<s[i]>>

\* lines 118-123: a match of grade pattern 1..4 that starts at i; the result
\* is the grade text, <<>> when the pattern does not match at i
GradeAt(s, pattern, i) ==
    LET letter(k) == k >= 1 /\ k <= Len(s) /\ s[k] \in GradeLetters
        \* ([ABCDF][+]?) at i, then \s* when spaces, then lit
        before(lit, spaces) ==
            IF ~letter(i) THEN <<>>
            ELSE LET after(n) == i + n + (IF spaces THEN SpacesFrom(s, i + n) ELSE 0) IN
                 IF Len(GradeText(s, i)) = 2 /\ At(s, after(2), lit) THEN GradeText(s, i)
                 ELSE IF At(s, after(1), lit) THEN <<s[i]>>
                 ELSE <<>>
    IN  CASE pattern = 1 -> before(<<"hak", "jeom">>, FALSE)
          [] pattern = 2 -> before(<<"bat", "eun">>, TRUE)
          [] pattern = 3 ->
               IF At(s, i, <<"seong", "jeok">>) /\ letter(i + 2 + SpacesFrom(s, i + 2))
               THEN GradeText(s, i + 2 + SpacesFrom(s, i + 2))
               ELSE <<>>
          [] OTHER -> before(<<"gwa", "mok">>, TRUE)

GradeSearch(s, pattern) ==
    LET at == {i \in 1..Len(s) : GradeAt(s, pattern, i) # <<>>} IN
    IF at = {} THEN <<>> ELSE GradeAt(s, pattern, Least(at))

RECURSIVE GradeLoop(_, _)
GradeLoop(query, pattern) ==
    IF pattern > 4 THEN NoneVal
    ELSE IF GradeSearch(query, pattern) # <<>>
    THEN StrVal(GradeSearch(query, pattern))
    ELSE GradeLoop(query, pattern + 1)

\* QueryParser.parse_enrollment_conditions, lines 88-147
parse_enrollment_conditions(query) ==
    LET types == {t \in 1..Len(ENROLLMENT_TYPES) : Contains(query, ENROLLMENT_TYPES[t].korean)}
        k == FirstSubjectKeyword(query)
        c == CharLitSearch(query, {"1", "2", "3", "4", "5", "6", "7", "8", "9"},
                           <<"hak", "jeom">>)
    IN  [semester |-> SemesterLoop(query, 1),
         grade |-> GradeLoop(query, 1),
         enrollment_type |-> IF types = {} THEN NoneVal
                             ELSE StrVal(ENROLLMENT_TYPES[Least(types)].eng),
         subject_keyword |-> IF k = 0 THEN NoneVal ELSE StrVal(SUBJECT_KEYWORDS[k]),
         credits |-> IF c = 0 THEN NoneVal ELSE IntVal(DigitValue(query[c]))]

\* any(conditions.values())
AnyCondition(conditions) == \E f \in DOMAIN conditions : TruthyVal(conditions[f])

----------------------------------------------------------------------------
(* The lookup tools of 7.multi_agent/server/tools                           *)

\* str.upper() on one character, for the lower-case letters the texts use
UpperChar(c) ==
    CASE c = "s" -> "S"
      [] c = "e" -> "E"
      [] c = "l" -> "L"
      [] c = "c" -> "C"
      [] c = "t" -> "T"
      [] OTHER -> c

Upper(s) == [i \in 1..Len(s) |-> UpperChar(s[i])]

\* QueryValidator.SQL_KEYWORDS, lines 58-64
SQL_KEYWORDS == {
    <<"S", "E", "L", "E", "C", "T">>, <<"F", "R", "O", "M">>, <<"W", "H", "E", "R", "E">>,
    <<"I", "N", "S", "E", "R", "T">>, <<"U", "P", "D", "A", "T", "E">>,
    <<"D", "E", "L", "E", "T", "E">>, <<"J", "O", "I", "N">>, <<"I", "N", "N", "E", "R">>,
    <<"L", "E", "F", "T">>, <<"R", "I", "G", "H", "T">>, <<"O", "U", "T", "E", "R">>,
    <<"O", "N">>, <<"G", "R", "O", "U", "P", SP, "B", "Y">>,
    <<"O", "R", "D", "E", "R", SP, "B", "Y">>, <<"H", "A", "V", "I", "N", "G">>,
    <<"L", "I", "M", "I", "T">>, <<"O", "F", "F", "S", "E", "T">>,
    <<"C", "R", "E", "A", "T", "E">>, <<"D", "R", "O", "P">>, <<"A", "L", "T", "E", "R">>,
    <<"T", "A", "B", "L", "E">>, <<"I", "N", "D", "E", "X">>, <<"U", "N", "I", "O", "N">>,
    <<"D", "I", "S", "T", "I", "N", "C", "T">>, <<"C", "O", "U", "N", "T">>,
    <<"S", "U", "M">>, <<"A", "V", "G">>, <<"M", "A", "X">>, <<"M", "I", "N">> }

\* (a variant that finds no keyword in any query)
contains_sql_keywords_never(query) == FALSE

\* QueryValidator.contains_sql_keywords, lines 66-69
contains_sql_keywords(query) == AnyKeyword(Upper(query), SQL_KEYWORDS)

\* Sample query texts (one token a syllable, a letter, a digit or a sign)
ToolQueries == <<
    <<"gang", "ui", SP, "al", "ryeo", "jwo">>,                      \* "강의 알려줘"
    <<"hak", "gi", "byeol", SP, "gwa", "mok">>,                     \* "학기별 과목"
    <<"seong", "jeok", SP, "jo", "hoe">>,                           \* "성적 조회"
    <<"2", "0", "2", "4", "-", "1", "hak", "gi", SP, "gwa", "mok">>,            \* "2024-1학기 과목"
    <<"2", "0", "2", "4", "nyeon", SP, "2", "hak", "gi", SP, "gwa", "mok">>,    \* "2024년 2학기 과목"
    <<"1", "hak", "gi", SP, "gwa", "mok">>,                         \* "1학기 과목"
    <<"A", "hak", "jeom", SP, "bat", "eun", SP, "gwa", "mok">>,     \* "A학점 받은 과목"
    <<"seong", "jeok", SP, "B", "+">>,                              \* "성적 B+"
    <<"nae", "ga", SP, "i", "su", "han", SP, "gwa", "mok">>,        \* "내가 이수한 과목"
    <<"i", "su", SP, "tong", "gye">>,                               \* "이수 통계"
    <<"an", "nyeong">>,                                             \* "안녕"
    <<"s", "e", "l", "e", "c", "t", SP, "gwa", "mok">>,             \* "select 과목"
    <<"3", "hak", "nyeon", SP, "guk", "mun", "hak", "gwa", SP, "gwa", "mok">>,  \* "3학년 국문학과 과목"
    <<"sim", "ri", "hak", SP, "gang", "ui">>,                       \* "심리학 강의"
    <<"gim", "cheol", "su", SP, "gyo", "su", SP, "gang", "ui">>,    \* "김철수 교수 강의"
    <<"da", "eum", SP, "hak", "gi", SP, "gwa", "mok">>,             \* "다음 학기 과목"
    <<"i", "beon", SP, "hak", "gi", SP, "gang", "ui">>,             \* "이번 학기 강의"
    <<"ji", "nan", SP, "hak", "gi", SP, "gang", "ui">>,             \* "지난 학기 강의"
    <<"jeon", "che", SP, "gang", "ui">>,                            \* "전체 강의"
    <<"jeon", "gong", "pil", "su", SP, "hak", "gi">>,               \* "전공필수 학기"
    <<"3", "hak", "jeom", SP, "gwa", "mok">>,                       \* "3학점 과목"
    <<"A", "I", SP, "gang", "ui">>,                                 \* "AI 강의"
    <<"keom", "pyu", "teo", "hak", "gwa", SP, "gang", "ui">>,       \* "컴퓨터학과 강의"
    <<"yo", "yak">>,                                                \* "요약"
    <<"S", "E", "L", "E", "C", "T", SP, "gwa", "mok">>,             \* "SELECT 과목"
    <<"nae", SP, "jeong", "bo", SP, "jo", "hoe">>,                  \* "내 정보 조회"
    <<"na", "wa", SP, "bi", "seut", "han", SP, "hak", "saeng">>,    \* "나와 비슷한 학생"
    <<"nae", SP, "jeong", "bo", SP, "s", "e", "l", "e", "c", "t">>  \* "내 정보 select"
>>

\* days on which a tool is called: in term 1, in the summer vacation, in
\* term 2, in the last days of December, and in term 1 of the next year
CallDates ==
    { Date(2025, 4, 10), Date(2025, 7, 15), Date(2025, 10, 2), Date(2025, 12, 25),
      Date(2026, 3, 2) }

\* whether the database answers ("ok") or connecting or the cursor raises
DbOutcomes == {"ok", "error"}

\* a statement given to cursor.execute: which statement, and the condition
\* fields of the extractor that were added to its WHERE clause
Query(sql, filters) == [sql |-> sql, filters |-> filters]

\* what _run returned, the statements it executed, and what the extractor
\* returned when it was called (parsed)
ToolResult(tool, kind, queries, parsed, populated) ==
    [op |-> tool, kind |-> kind, queries |-> queries, parsed |-> parsed,
     populated |-> populated]

ToolNotRun == ToolResult("none", "none", <<>>, FALSE, FALSE)

\* the fields of a conditions dict that are set
Populated(conditions) == {f \in DOMAIN conditions : TruthyVal(conditions[f])}

\* CourseTool._search_by_semester, lines 71-113
search_by_semester(semester_info, semester_type, db) ==
    IF semester_type = "current" /\ ~TruthyInt(semester_info.current_semester)
    THEN ToolResult("course_tool", "vacation", <<>>, FALSE, FALSE)
    ELSE IF db = "error"
    THEN ToolResult("course_tool", "error", <<>>, FALSE, FALSE)
    ELSE ToolResult("course_tool", "results",
                    <<Query("courses_of_semester", {"offered_year", "offered_semester"})>>,
                    FALSE, FALSE)

\* CourseTool._search_all_courses, lines 115-142
search_all_courses(semester_info, db) ==
    IF db = "error"
    THEN ToolResult("course_tool", "error", <<>>, FALSE, FALSE)
    ELSE ToolResult("course_tool", "results", <<Query("all_courses", {})>>, FALSE, FALSE)

\* CourseTool._search_by_conditions, lines 144-159, with the WHERE clause of
\* _build_dynamic_query, lines 184-214
search_by_conditions(query, semester_info, db) ==
    LET conditions == parse_course_conditions(query) IN
    IF ~AnyCondition(conditions)
    THEN ToolResult("course_tool", "usage_guide", <<>>, TRUE, FALSE)
    ELSE IF db = "error"
    THEN ToolResult("course_tool", "error", <<>>, TRUE, TRUE)
    ELSE ToolResult("course_tool", "results",
                    <<Query("courses_by_conditions",
                            Populated(conditions) \cap
                                {"grade", "department", "subject_keyword", "professor"})>>,
                    TRUE, TRUE)

\* CourseTool._run, lines 45-69
course_tool_run(query, now, db) ==
    IF contains_sql_keywords(query)
    THEN ToolResult("course_tool", "rejected", <<>>, FALSE, FALSE)
    ELSE LET semester_info == get_current_semester_info(now) IN
         IF Contains(query, <<"da", "eum", SP, "hak", "gi">>)
            \/ Contains(query, <<"da", "eum", "hak", "gi">>)
         THEN search_by_semester(semester_info, "next", db)
         ELSE IF Contains(query, <<"ji", "nan", SP, "hak", "gi">>)
                 \/ Contains(query, <<"i", "jeon", SP, "hak", "gi">>)
         THEN search_by_semester(semester_info, "prev", db)
         ELSE IF Contains(query, <<"i", "beon", SP, "hak", "gi">>)
                 \/ Contains(query, <<"hyeon", "jae", SP, "hak", "gi">>)
         THEN search_by_semester(semester_info, "current", db)
         ELSE IF Contains(query, <<"jeon", "che">>) \/ Contains(query, <<"mo", "deun">>)
         THEN search_all_courses(semester_info, db)
         ELSE search_by_conditions(query, semester_info, db)

\* the statement of EnrollmentTool._check_enrollment_exists, lines 84-91
CountQuery == Query("count_enrollments", {})

\* EnrollmentTool._get_enrollments_by_semester, lines 123-160 (field =
\* "semester"), and _get_enrollments_by_grade, lines 162-199 (field = "grade")
get_enrollments_by(field, query, db) ==
    LET conditions == parse_enrollment_conditions(query) IN
    IF db = "error"
    THEN ToolResult("enrollment_tool", "error", <<CountQuery>>, TRUE, AnyCondition(conditions))
    ELSE ToolResult("enrollment_tool", "results",
                    <<CountQuery,
                      Query("enrollments_by_" \o field, Populated(conditions) \cap {field})>>,
                    TRUE, AnyCondition(conditions))

\* EnrollmentTool._run, lines 53-82.  db is the outcome of the statements
\* after the first; db_first that of _check_enrollment_exists.
enrollment_tool_run(query, authenticated, has_enrollments, db_first, db) ==
    IF contains_sql_keywords(query)
    THEN ToolResult("enrollment_tool", "rejected", <<>>, FALSE, FALSE)
    ELSE IF ~authenticated
    THEN ToolResult("enrollment_tool", "no_user", <<>>, FALSE, FALSE)
    ELSE IF db_first = "error"
    THEN ToolResult("enrollment_tool", "error", <<>>, FALSE, FALSE)
    ELSE IF ~has_enrollments
    THEN ToolResult("enrollment_tool", "no_enrollments", <<CountQuery>>, FALSE, FALSE)
    ELSE IF \E k \in { <<"nae", "ga", SP, "i", "su", "han">>, <<"nae", SP, "i", "su">>,
                       <<"deul", "eun", SP, "gwa", "mok">> } : Contains(query, k)
    THEN IF db = "error"
         THEN ToolResult("enrollment_tool", "error", <<CountQuery>>, FALSE, FALSE)
         ELSE ToolResult("enrollment_tool", "results",
                         <<CountQuery, Query("all_enrollments", {})>>, FALSE, FALSE)
    ELSE IF \E k \in { <<"hak", "gi", "byeol">>, <<"hak", "gi">> } : Contains(query, k)
    THEN get_enrollments_by("semester", query, db)
    ELSE IF Contains(query, <<"seong", "jeok">>)
            \/ \E g \in { <<"A", "+">>, <<"A">>, <<"B", "+">>, <<"B">>, <<"C", "+">>, <<"C">>,
                          <<"D", "+">>, <<"D">>, <<"F">> } : Contains(query, g)
    THEN get_enrollments_by("grade", query, db)
    ELSE IF \E k \in { <<"tong", "gye">>, <<"yo", "yak">> } : Contains(query, k)
    THEN IF db = "error"
         THEN ToolResult("enrollment_tool", "error", <<CountQuery>>, FALSE, FALSE)
         ELSE ToolResult("enrollment_tool", "results",
                         <<CountQuery, Query("total_statistics", {}),
                           Query("type_statistics", {})>>, FALSE, FALSE)
    ELSE ToolResult("enrollment_tool", "usage_guide", <<CountQuery>>, FALSE, FALSE)

\* The arguments of a tool call and the circumstances it runs in
InitTools ==
    /\ \E q \in 1..Len(ToolQueries), now \in CallDates, authenticated \in BOOLEAN,
          has_enrollments \in BOOLEAN :
          rin = [query |-> ToolQueries[q], now |-> now, authenticated |-> authenticated,
                 has_enrollments |-> has_enrollments]
    /\ rout = ToolNotRun
    /\ store = Missing
    /\ running = FALSE
    /\ conversation_history = NoInstance
    /\ clock = 0
    /\ asked = 0
    /\ calls = <<>>
    /\ loaded = <<>>
    /\ last = Outcome("init", 0, "none", "returned")
    /\ NoRequests

\* CourseTool._run(query)
CourseToolRun(db) ==
    /\ rout.op = "none"
    /\ rout' = course_tool_run(rin.query, rin.now, db)
    /\ UNCHANGED <<rin, memVars, srvVars>>

\* EnrollmentTool._run(query)
EnrollmentToolRun(db_first, db) ==
    /\ rout.op = "none"
    /\ rout' = enrollment_tool_run(rin.query, rin.authenticated, rin.has_enrollments,
                                   db_first, db)
    /\ UNCHANGED <<rin, memVars, srvVars>>

\* StudentTool._get_my_info, lines 70-93
get_my_info(db) ==
    IF db = "error"
    THEN ToolResult("student_tool", "error", <<>>, FALSE, FALSE)
    ELSE ToolResult("student_tool", "results", <<Query("my_info", {})>>, FALSE, FALSE)

\* StudentTool._get_similar_students_stats, lines 95-140; found: the
\* student's own row exists
get_similar_students_stats(db, found) ==
    IF db = "error"
    THEN ToolResult("student_tool", "error", <<>>, FALSE, FALSE)
    ELSE IF ~found
    THEN ToolResult("student_tool", "not_found", <<Query("my_conditions", {})>>, FALSE, FALSE)
    ELSE ToolResult("student_tool", "results",
                    <<Query("my_conditions", {}), Query("similar_students", {})>>,
                    FALSE, FALSE)

\* StudentTool._run, lines 47-68
student_tool_run(query, authenticated, db, found) ==
    IF contains_sql_keywords(query)
    THEN ToolResult("student_tool", "rejected", <<>>, FALSE, FALSE)
    ELSE IF ~authenticated
    THEN ToolResult("student_tool", "no_user", <<>>, FALSE, FALSE)
    ELSE IF \E k \in { <<"nae">>, <<"jeong", "bo">>, <<"hak", "jeok">>,
                       <<"hyeon", "hwang">>, <<"bun", "seok">> } : Contains(query, k)
    THEN get_my_info(db)
    ELSE IF \E k \in { <<"na", "wa", SP, "bi", "seut", "han">>,
                       <<"gat", "eun", SP, "jo", "geon">> } : Contains(query, k)
    THEN get_similar_students_stats(db, found)
    ELSE ToolResult("student_tool", "usage_guide", <<>>, FALSE, FALSE)

\* StudentTool._run(query)
StudentToolRun(db, found) ==
    /\ rout.op = "none"
    /\ rout' = student_tool_run(rin.query, rin.authenticated, db, found)
    /\ UNCHANGED <<rin, memVars, srvVars>>

\* what an extractor returned for the query
Extracted(op, conditions) == [op |-> op, conditions |-> conditions]

\* QueryParser.parse_course_conditions(query)
ParseCourseConditions ==
    /\ rout.op = "none"
    /\ rout' = Extracted("parse_course_conditions", parse_course_conditions(rin.query))
    /\ UNCHANGED <<rin, memVars, srvVars>>

\* QueryParser.parse_enrollment_conditions(query)
ParseEnrollmentConditions ==
    /\ rout.op = "none"
    /\ rout' = Extracted("parse_enrollment_conditions",
                         parse_enrollment_conditions(rin.query))
    /\ UNCHANGED <<rin, memVars, srvVars>>

NextTools ==
    \/ \E db \in DbOutcomes : CourseToolRun(db)
    \/ \E db_first \in DbOutcomes, db \in DbOutcomes : EnrollmentToolRun(db_first, db)
    \/ \E db \in DbOutcomes, found \in BOOLEAN : StudentToolRun(db, found)
    \/ ParseCourseConditions
    \/ ParseEnrollmentConditions

SpecTools == InitTools /\ [][NextTools]_vars

----------------------------------------------------------------------------
(* Planning and running the stages of one question (process_query)         *)

\* one phrase for each rule of classify_question, in rule order
Fragments == <<
    <<"nae", SP, "seong", "jeok">>,     \* "내 성적"    (rule 1, and rule 6)
    <<"jeon", "che">>,                  \* "전체"       (rule 2)
    <<"jol", "eop">>,                   \* "졸업"       (rule 3)
    <<"chu", "cheon">>,                 \* "추천"       (rule 4)
    <<"gwa", "mok">>,                   \* "과목"       (rule 5)
    <<"jeong", "bo">>                   \* "정보"       (rule 6)
>>

RECURSIVE JoinFragments(_, _)
\* the phrases chosen, in order, each followed by a space, then "알려줘"
JoinFragments(chosen, i) ==
    IF i > Len(Fragments) THEN <<"al", "ryeo", "jwo">>
    ELSE IF i \in chosen THEN Fragments[i] \o <<SP>> \o JoinFragments(chosen, i + 1)
    ELSE JoinFragments(chosen, i + 1)

\* questions given to process_query
PlanQuestions ==
    {JoinFragments(chosen, 1) : chosen \in SUBSET (1..Len(Fragments))}
        \cup {Questions[q] : q \in QIds}

\* the members of QuestionType
QuestionTypes ==
    {"comprehensive", "graduation", "recommendation", "course", "student", "general"}

\* Task.description: the f-string of task_configs
Description(task) == <<task.template>> \o task.question

\* what a call has produced: the QuestionType, the Task list, the tasks the
\* crew has run so far, and how far the call is
Plan(op, question_type, tasks, executed, status) ==
    [op |-> op, question_type |-> question_type, tasks |-> tasks,
     executed |-> executed, status |-> status]

NoPlan == Plan("none", "none", <<>>, <<>>, "none")

InitPlan ==
    /\ \E question \in PlanQuestions, question_type \in QuestionTypes :
          rin = [question |-> question, question_type |-> question_type]
    /\ rout = NoPlan
    /\ store = Missing
    /\ running = TRUE
    /\ conversation_history = JsonList(<<>>)
    /\ clock = 0
    /\ asked = 0
    /\ calls = <<>>
    /\ loaded = <<>>
    /\ last = Outcome("construct", 0, "none", "returned")
    /\ NoRequests

\* AgentSystem.classify_question(question)
ClassifyQuestion ==
    /\ rout.op = "none"
    /\ rout' = Plan("classify_question", classify_question(rin.question), <<>>, <<>>,
                    "returned")
    /\ UNCHANGED <<rin, memVars, srvVars>>

\* AgentSystem.create_tasks(question, question_type)
CreateTasks ==
    /\ rout.op = "none"
    /\ rout' = Plan("create_tasks", rin.question_type,
                    create_tasks(rin.question, rin.question_type), <<>>, "returned")
    /\ UNCHANGED <<rin, memVars, srvVars>>

\* process_query, lines 396-410: classify, create the tasks, build the Crew
PlanQuery ==
    /\ rout.op = "none"
    /\ LET question_type == classify_question(rin.question) IN
       rout' = Plan("process_query", question_type,
                    create_tasks(rin.question, question_type), <<>>, "kickoff")
    /\ UNCHANGED <<rin, memVars, srvVars>>

\* the task a sequential crew runs next: the first one not yet run
NextTask(tasks, executed) == tasks[Len(executed) + 1]

\* crew.kickoff(), Process.sequential: one task runs to its end; raises = TRUE:
\* the task raises and kickoff, then process_query, propagate it
RunStage(raises) ==
    /\ rout.op = "process_query"
    /\ rout.status = "kickoff"
    /\ Len(rout.executed) < Len(rout.tasks)
    /\ rout' = IF raises
               THEN [rout EXCEPT !.status = "raised"]
               ELSE [rout EXCEPT !.executed = Append(@, NextTask(rout.tasks, rout.executed))]
    /\ UNCHANGED <<rin, memVars, srvVars>>

\* process_query, lines 412-421: kickoff returns the last task's output and
\* the turn is recorded
RecordTurn(save_outcome) ==
    /\ rout.op = "process_query"
    /\ rout.status = "kickoff"
    /\ Len(rout.executed) = Len(rout.tasks)
    /\ LET conversation == Turn(clock + 1, rin.question,
                                rout.tasks[Len(rout.tasks)].agent, rout.question_type)
       IN  /\ conversation_history' = add_conversation(conversation_history, conversation)
           /\ calls' = Append(calls, conversation)
           /\ store' = save_memory(store, conversation_history', save_outcome)
    /\ clock' = clock + 1
    /\ rout' = [rout EXCEPT !.status = "returned"]
    /\ UNCHANGED <<rin, running, asked, loaded, last, srvVars>>

NextPlan ==
    \/ ClassifyQuestion
    \/ CreateTasks
    \/ PlanQuery
    \/ \E raises \in BOOLEAN : RunStage(raises)
    \/ \E save_outcome \in SaveOutcomes : RecordTurn(save_outcome)

SpecPlan == InitPlan /\ [][NextPlan]_vars

----------------------------------------------------------------------------
(* Prerequisites (6.recommendate_nxtclass/recommendation_engine_tool.py)    *)
(* and the two versions of _generate_recommendations                       *)

\* a candidate row that also carries a prerequisites text: course codes
\* separated by commas, <<>> when the row has none (None or '')
CourseWith(code, credits, course_type, department, prerequisites) ==
    [course_code |-> code, credits |-> credits, course_type |-> course_type,
     department |-> department, prerequisites |-> prerequisites]

CS101 == <<"C", "S", "1", "0", "1", "0", "1">>
CS201 == <<"C", "S", "2", "0", "1", "0", "1">>
CS301 == <<"C", "S", "3", "0", "1", "0", "1">>
GE2 == <<"G", "E", "2">>

\* candidates: CS20101 needs CS10101; CS30101 needs "CS10101, CS20101"; the
\* liberal course GE3 needs GE2; GE4 has a text without any code
PrereqCatalog ==
    << CourseWith(<<"G", "E", "3">>, 3, "gyoyangseontaek", "GE", GE2),
       CourseWith(<<"G", "E", "4">>, 2, "gyoyangseontaek", "GE", <<",", SP>>),
       CourseWith(CS101, 3, "jeongongpilsu", "CS", <<>>),
       CourseWith(CS201, 3, "jeongongpilsu", "CS", CS101),
       CourseWith(CS301, 4, "jeongongseontaek", "CS", CS101 \o <<",", SP>> \o CS201) >>

\* passed courses a transcript may hold
PassedCourses ==
    << CourseWith(CS101, 3, "jeongongpilsu", "CS", <<>>),
       CourseWith(CS201, 3, "jeongongpilsu", "CS", CS101),
       CourseWith(GE2, 3, "gyoyangseontaek", "GE", <<>>) >>

\* the elements of rows whose index is in keep, in order
RECURSIVE Pick(_, _, _)
Pick(rows, keep, i) ==
    IF i > Len(rows) THEN <<>>
    ELSE (IF i \in keep THEN <<rows[i]>> ELSE <<>>) \o Pick(rows, keep, i + 1)

\* str.split(sep) from position i on, current being the piece read so far
RECURSIVE SplitLoop(_, _, _, _)
SplitLoop(s, sep, i, current) ==
    IF i > Len(s) THEN <<current>>
    ELSE IF s[i] = sep THEN <<current>> \o SplitLoop(s, sep, i + 1, <<>>)
    ELSE SplitLoop(s, sep, i + 1, Append(current, s[i]))

Split(s, sep) == SplitLoop(s, sep, 1, <<>>)

\* str.strip()
RECURSIVE Strip(_)
Strip(s) ==
    IF s = <<>> THEN s
    ELSE IF Head(s) = SP THEN Strip(Tail(s))
    ELSE IF s[Len(s)] = SP THEN Strip(SubSeq(s, 1, Len(s) - 1))
    ELSE s

\* RecommendationEngineTool._check_prerequisites, lines 156-169
check_prerequisites(course, completed_courses) ==
    IF course.prerequisites = <<>> THEN TRUE
    ELSE LET prerequisites == Split(course.prerequisites, ",")
             completed_codes == {completed_courses[i].course_code :
                                     i \in 1..Len(completed_courses)}
         IN  \A i \in 1..Len(prerequisites) :
                 LET prereq == Strip(prerequisites[i]) IN
                 ~(prereq # <<>> /\ prereq \notin completed_codes)

\* RecommendationEngineTool._is_same_course, lines 171-175
is_same_course(course_code1, course_code2) ==
    IF course_code1 = <<>> \/ course_code2 = <<>> THEN FALSE
    ELSE SliceFirst(course_code1, PrefixLen) = SliceFirst(course_code2, PrefixLen)

\* RecommendationEngineTool._is_already_taken, lines 177-182
engine_is_already_taken(course_code, completed_courses) ==
    \E i \in 1..Len(completed_courses) :
        is_same_course(course_code, completed_courses[i].course_code)

\* one of the three loops of lines 227-276: tier 1 neither stops at
\* max_credits nor looks for duplicates, tier 2 stops, tier 3 does both
RECURSIVE EngineLoop(_, _, _, _, _)
EngineLoop(recommendations, candidates, priority, completed_courses, max_credits) ==
    IF candidates = <<>> THEN recommendations
    ELSE LET course == Head(candidates)
             rest == Tail(candidates)
         IN  IF /\ CurrentCredits(recommendations) + course.credits <= max_credits
                /\ check_prerequisites(course, completed_courses)
                /\ priority = 3 =>
                      ~\E i \in 1..Len(recommendations) :
                          is_same_course(recommendations[i].course.course_code,
                                         course.course_code)
             THEN LET added == Append(recommendations,
                                      [course |-> course, priority |-> priority])
                  IN  IF priority > 1 /\ CurrentCredits(added) >= max_credits
                      THEN added
                      ELSE EngineLoop(added, rest, priority, completed_courses, max_credits)
             ELSE EngineLoop(recommendations, rest, priority, completed_courses, max_credits)

\* RecommendationEngineTool._generate_recommendations, lines 211-278
engine_generate_recommendations(student_info, completed_courses, available_courses, max_credits) ==
    LET major_code == student_info.major_code
        progress == calculate_graduation_progress(student_info, completed_courses)
        major_courses == SelectSeq(available_courses,
            LAMBDA c : c.department = major_code
                       /\ ~engine_is_already_taken(c.course_code, completed_courses))
        liberal_courses == SelectSeq(available_courses,
            LAMBDA c : c.course_type \in LiberalTypes
                       /\ ~engine_is_already_taken(c.course_code, completed_courses))
        first == EngineLoop(<<>>, major_courses, 1, completed_courses, max_credits)
        second == IF progress.remaining_liberal > 0
                  THEN EngineLoop(first, liberal_courses, 2, completed_courses, max_credits)
                  ELSE first
    IN  IF CurrentCredits(second) < max_credits
        THEN EngineLoop(second, major_courses, 3, completed_courses, max_credits)
        ELSE second

\* credit limits the two functions are called with
PrereqMaxCredits == {6, 21}

\* what a call returned: the recommendations, or the truth value of
\* _check_prerequisites for the course asked about
Generated(op, course, holds, recommendations) ==
    [op |-> op, course |-> course, holds |-> holds, recommendations |-> recommendations]

\* The candidates, the transcript and the credit limit of a call
InitPrereq ==
    /\ \E keep \in SUBSET (1..Len(PrereqCatalog)), passed \in SUBSET (1..Len(PassedCourses)),
          max_credits \in PrereqMaxCredits :
          rin = [student_id |-> "S1", available |-> Pick(PrereqCatalog, keep, 1),
                 completed |-> Pick(PassedCourses, passed, 1), max_credits |-> max_credits]
    /\ rout = Generated("none", 0, FALSE, <<>>)
    /\ store = Missing
    /\ running = FALSE
    /\ conversation_history = NoInstance
    /\ clock = 0
    /\ asked = 0
    /\ calls = <<>>
    /\ loaded = <<>>
    /\ last = Outcome("init", 0, "none", "returned")
    /\ NoRequests

\* RecommendationEngineTool._check_prerequisites(course, completed_courses)
CheckPrerequisites(i) ==
    /\ rout.op = "none"
    /\ i \in 1..Len(rin.available)
    /\ rout' = Generated("check_prerequisites", i,
                         check_prerequisites(rin.available[i], rin.completed), <<>>)
    /\ UNCHANGED <<rin, memVars, srvVars>>

\* RecommendationEngineTool._generate_recommendations (6.recommendate_nxtclass)
EngineGenerateRecommendations ==
    /\ rout.op = "none"
    /\ rout' = Generated("engine_generate_recommendations", 0, FALSE,
                         engine_generate_recommendations(get_student_info(rin.student_id),
                             rin.completed, rin.available, rin.max_credits))
    /\ UNCHANGED <<rin, memVars, srvVars>>

\* RecommendationTool._generate_recommendations (8.memory_agent)
ToolGenerateRecommendations ==
    /\ rout.op = "none"
    /\ rout' = Generated("generate_recommendations", 0, FALSE,
                         generate_recommendations(get_student_info(rin.student_id),
                             rin.completed, rin.available, rin.max_credits))
    /\ UNCHANGED <<rin, memVars, srvVars>>

NextPrereq ==
    \/ \E i \in 1..Len(PrereqCatalog) : CheckPrerequisites(i)
    \/ EngineGenerateRecommendations
    \/ ToolGenerateRecommendations

SpecPrereq == InitPrereq /\ [][NextPrereq]_vars

----------------------------------------------------------------------------
(* RecommendationTool._run on a given day                                   *)

\* The arguments of a call, the rows its queries find and the day of the call
InitDated ==
    /\ \E student_id \in StudentIds, keep \in {{}, 1..Len(Catalog)},
          completed \in CompletedLists, semester \in SemesterArgs, now \in CallDates :
          rin = [student_id |-> student_id, table |-> Rows(keep, 1),
                 completed |-> completed, max_credits |-> NoneInt,
                 semester |-> semester, now |-> now]
    /\ rout = NotCalled
    /\ store = Missing
    /\ running = FALSE
    /\ conversation_history = NoInstance
    /\ clock = 0
    /\ asked = 0
    /\ calls = <<>>
    /\ loaded = <<>>
    /\ last = Outcome("init", 0, "none", "returned")
    /\ NoRequests

NextDated == \E db_ok \in BOOLEAN : Run(db_ok)

SpecDated == InitDated /\ [][NextDated]_vars

----------------------------------------------------------------------------
(* get_recent_context as a function of the history and the limit           *)

\* bounds of the histories and limits tried
MaxTurns == 4
MaxLimit == 5

\* lengths of the answers tried, around the budget
AnswerLengths == {0, 1, AnswerBudget - 1, AnswerBudget, AnswerBudget + 1, AnswerBudget + 50}

\* a text of n characters, each written as its position
Chars(n) == [i \in 1..n |-> i]

\* a history of k turns; turn i asks question i and its answer has len
\* characters
Transcript(k, len) ==
    JsonList([i \in 1..k |-> Turn(i, <<i>>, Chars(len), "general")])

NoContext == [op |-> "none", context |-> <<>>]

InitContext ==
    /\ store = Missing
    /\ running = FALSE
    /\ conversation_history = NoInstance
    /\ clock = 0
    /\ asked = 0
    /\ calls = <<>>
    /\ loaded = <<>>
    /\ last = Outcome("init", 0, "none", "returned")
    /\ NoRequests
    /\ rin \in [history : {Transcript(k, len) : k \in 0..MaxTurns, len \in AnswerLengths},
                limit : 0..MaxLimit]
    /\ rout = NoContext

\* memory.get_recent_context(limit) on the history
RenderRecentContext ==
    /\ rout.op = "none"
    /\ rout' = [op |-> "get_recent_context",
                context |-> get_recent_context(rin.history, rin.limit)]
    /\ UNCHANGED <<rin, memVars, srvVars>>

NextContext == RenderRecentContext

SpecContext == InitContext /\ [][NextContext]_vars

----------------------------------------------------------------------------
(* Claims about ConversationMemory and process_query                        *)

\* C1: after N >= max_history calls of add_conversation on one
\* ConversationMemory the history holds exactly max_history turns, and they
\* are the most recent max_history calls in insertion order.
C1_FifoEviction ==
    (running /\ Len(calls) >= max_history) =>
        /\ Len(conversation_history.items) = max_history
        /\ \A i \in 1..max_history :
              conversation_history.items[i] = calls[Len(calls) - max_history + i]

\* 11 calls on a store that started empty: 10 turns are kept and the oldest
\* of them is the 2nd call.
C1_Witness ==
    /\ running
    /\ loaded = <<>>
    /\ Len(calls) = max_history + 1
    /\ Len(conversation_history.items) = max_history
    /\ conversation_history.items[1] = calls[2]
    /\ conversation_history.items[1] # calls[1]

\* C5: process_query records exactly one turn (question, final answer,
\* classified intent) when the pipeline completed, and leaves the history and
\* the store alone when a stage failed or the pipeline was interrupted.
C5_WriteIffCompleted ==
    [][ (asked' = asked + 1 /\ last'.op = "process_query") =>
          IF last'.pipeline = "completed" /\ last'.result = "returned"
          THEN LET old == conversation_history.items
                   new == conversation_history'.items
                   n == Len(new)
                   tasks == create_tasks(Questions[last'.q],
                                         classify_question(Questions[last'.q]))
               IN  /\ n >= 1
                   /\ n <= Len(old) + 1
                   /\ new[n].question = last'.q
                   /\ new[n].answer = tasks[Len(tasks)].agent
                   /\ new[n].question_type = classify_question(Questions[last'.q])
                   /\ new[n].timestamp = clock'
                   /\ \A i \in 1..(n - 1) : new[i] = old[Len(old) - (n - 1) + i]
          ELSE IF last'.pipeline \in {"failed", "interrupted"}
          THEN /\ store' = store
               /\ running' => conversation_history' = conversation_history
          ELSE TRUE ]_vars

\* a stage failed while the history held turns
C5_Witness ==
    /\ running
    /\ asked >= 1
    /\ last.op = "process_query"
    /\ last.pipeline = "failed"
    /\ Len(conversation_history.items) >= 1
    /\ store = FileOf(json_dump(conversation_history))

\* C7: when add_conversation has returned, a ConversationMemory constructed
\* anew for the student loads the history the old instance holds.
C7_StoreEqualsHistory ==
    (running /\ last.op = "process_query" /\ last.result = "returned") =>
        load_memory(store, TRUE) = conversation_history

\* C8: constructing on a missing, unreadable or corrupted store gives an
\* empty history, and no later memory operation raises.
C8_StaleMemoryNeverFatal ==
    /\ last.op \in {"construct", "get_recent_context", "get_conversation_summary"}
          => last.result = "returned"
    /\ (last.op = "process_query" /\ last.pipeline = "completed") => last.result # "raised"
    /\ (last.op = "construct" /\ last.result = "returned" /\ ~WellFormed(store))
          => conversation_history = JsonList(<<>>)

----------------------------------------------------------------------------
(* Claims about the server                                                 *)

\* the history that holds every recorded turn, oldest evicted first
ExpectedHistory ==
    LET all == loaded \o calls
        n == Min(Len(all), max_history)
    IN  [i \in 1..n |-> all[Len(all) - n + i]]

\* C6: when two chat requests of one student have both completed (and every
\* save succeeded), the history holds both turns, subject only to FIFO
\* eviction, and the persisted store equals the in-memory history.
C6_NoLostUpdate ==
    (\A t \in Requests : pc[t] = "done" /\ resp[t].kind = "answer" /\ res[t].save = "ok") =>
        /\ conversation_history.items = ExpectedHistory
        /\ load_memory(store, TRUE) = conversation_history

\* C2: the history of a ConversationMemory never holds more than max_history
\* turns: not while no add_conversation is between its append and its trim,
\* and not right after a construction, which loads what the store holds.
C2_LengthWithinCap ==
    /\ (running /\ \A t \in Requests : pc[t] \notin {"trim", "assign"}) =>
           Len(conversation_history.items) <= max_history
    /\ Len(load_memory(store, TRUE).items) <= max_history

\* C9: a request whose pipeline failed is answered with an error, never
\* with a success response.
C9_FailurePropagates ==
    \A t \in Requests :
        (pc[t] = "done" /\ res[t].status = "raised") =>
            (~resp[t].success /\ resp[t].status >= 500)

\* C10: when a record-store or retrieval call of a stage failed, the
\* pipeline of that request fails and no turn is recorded for the question.
C10_StoreFailureFailsPipeline ==
    \A t \in Requests :
        (pc[t] = "done" /\ res[t].db_failed) =>
            (res[t].status = "raised" /\ res[t].recorded = 0)

----------------------------------------------------------------------------
(* Claims about the recommendation engine                                  *)

\* C3: for a caller-supplied max_credits >= 0, the credits of the returned
\* recommendations sum to at most max_credits.
C3_PackingWithinMaxCredits ==
    (rout.op \in {"run", "generate"} /\ rin.max_credits.given /\ rin.max_credits.value >= 0) =>
        CurrentCredits(rout.recommendations) <= rin.max_credits.value

\* courses i < j of a list share their five-character prefix
SharedPrefix(courses) ==
    \E i, j \in 1..Len(courses) : i < j /\ Prefix(courses[i]) = Prefix(courses[j])

\* C4: the pool made by _remove_duplicate_courses holds, in input order,
\* exactly the courses that are the first of their prefix in the input, so at
\* most one per prefix; and the recommendations returned hold at most one
\* course per prefix over all tiers.
C4_OnePerPrefix ==
    /\ rout.op \in {"run", "remove_duplicate_courses"} =>
          /\ ~SharedPrefix(rout.pool)
          /\ rout.pool = SelectSeq(rout.queried,
                 LAMBDA c : \E i \in 1..Len(rout.queried) :
                               /\ rout.queried[i] = c
                               /\ \A j \in 1..(i - 1) : Prefix(rout.queried[j]) # Prefix(c))
    /\ rout.op \in {"run", "generate"} =>
          ~SharedPrefix([i \in 1..Len(rout.recommendations) |->
                            rout.recommendations[i].course])

C4_Witness ==
    /\ rout.op = "run"
    /\ SharedPrefix(rout.queried)
    /\ Len(rout.pool) < Len(rout.queried)
    /\ Len(rout.recommendations) >= 4
    /\ rout.recommendations[1].priority = 1
    /\ CurrentCredits(rout.recommendations) < rout.max_credits

----------------------------------------------------------------------------
(* Claims about the lookup tools                                           *)

\* C11: a lookup that goes through the condition extractor and gets no
\* condition field from it returns the usage guide and executes no statement
\* on the record store.
C11_AmbiguousQueryNotExecuted ==
    (rout.op \in {"course_tool", "enrollment_tool"} /\ rout.parsed /\ ~rout.populated) =>
        /\ rout.kind = "usage_guide"
        /\ \A i \in 1..Len(rout.queries) : rout.queries[i] = CountQuery

----------------------------------------------------------------------------
(* Claims about classification and the stage templates                     *)

\* the specialists of each intent's template, in order
StageTemplate(question_type) ==
    CASE question_type = "comprehensive" ->
            <<"student_expert", "graduation_expert", "recommendation_expert", "summary_expert">>
      [] question_type = "graduation" -> <<"graduation_expert">>
      [] question_type = "recommendation" ->
            <<"student_expert", "recommendation_expert", "summary_expert">>
      [] question_type = "course" -> <<"course_expert">>
      [] question_type = "student" -> <<"student_expert">>
      [] OTHER -> <<"graduation_expert">>

AgentsOf(tasks) == [i \in 1..Len(tasks) |-> tasks[i].agent]

\* C12: create_tasks returns the fixed ordered stage template of the intent
\* it is given (General falling back to the graduation lookup), and
\* process_query runs the stages of the classified intent in that order: at
\* every moment the stages run so far are the first stages of the template.
C12_FixedOrderedTemplate ==
    /\ rout.op = "create_tasks" => AgentsOf(rout.tasks) = StageTemplate(rin.question_type)
    /\ rout.op = "process_query" =>
          /\ rout.question_type = classify_question(rin.question)
          /\ AgentsOf(rout.tasks) = StageTemplate(rout.question_type)
          /\ Len(rout.executed) <= Len(rout.tasks)
          /\ AgentsOf(rout.executed) =
                SubSeq(StageTemplate(rout.question_type), 1, Len(rout.executed))

\* a Recommendation question whose three stages have all run and whose turn
\* was recorded
C12_Witness ==
    /\ rout.op = "process_query"
    /\ rout.question_type = "recommendation"
    /\ rout.status = "returned"
    /\ Len(rout.executed) = 3
    /\ Len(conversation_history.items) = 1

\* C13: every stage instruction built by create_tasks contains the question
\* text, for every intent and every question.
C13_InstructionCarriesQuestion ==
    rout.op \in {"create_tasks", "process_query"} =>
        \A i \in 1..Len(rout.tasks) : Contains(Description(rout.tasks[i]), rin.question)

\* the rules of the classifier in priority order
Rules == <<
    [keywords |-> KwPersonal, intent |-> "student"],
    [keywords |-> KwComprehensive, intent |-> "comprehensive"],
    [keywords |-> KwGraduation, intent |-> "graduation"],
    [keywords |-> KwRecommendation, intent |-> "recommendation"],
    [keywords |-> KwCourse, intent |-> "course"],
    [keywords |-> KwGeneric, intent |-> "student"] >>

Matching(question) ==
    {r \in 1..Len(Rules) : \E k \in Rules[r].keywords : Contains(Lower(question), k)}

\* C14: classify_question returns, for every question, the intent of the
\* lowest-numbered rule one of whose keywords occurs in the question, and
\* General exactly when no rule matches; a question with a personal-record
\* keyword and a catalog keyword is a Student question.
C14_FirstMatchingRule ==
    rout.op = "classify_question" =>
        /\ rout.question_type \in QuestionTypes
        /\ Matching(rin.question) = {} <=> rout.question_type = "general"
        /\ Matching(rin.question) # {} =>
              \E r \in Matching(rin.question) :
                  /\ \A o \in Matching(rin.question) : r <= o
                  /\ rout.question_type = Rules[r].intent
        /\ ({1, 5} \subseteq Matching(rin.question)) => rout.question_type = "student"

\* a question with a personal-record and a catalog keyword was classified
C14_Witness ==
    /\ rout.op = "classify_question"
    /\ {1, 5} \subseteq Matching(rin.question)
    /\ rout.question_type = "student"

----------------------------------------------------------------------------
(* Claims about the degree progress and the tiers of the engine            *)

\* a call that computed the student's degree progress
ProgressComputed ==
    \/ rout.op = "run" /\ rout.kind \in {"nothing", "listing"}
    \/ rout.op = "generate"

\* C15: the category credits of the degree progress partition the total: the
\* major and the liberal credits together never exceed the total credits,
\* so that the rest (the other credits) is not negative.
C15_CategoriesPartitionTotal ==
    ProgressComputed =>
        rout.progress.total_credits - rout.progress.major_credits
            - rout.progress.liberal_credits >= 0

\* max(0, required - earned) written out
RemainingOf(required, earned) == IF required - earned > 0 THEN required - earned ELSE 0

\* C16: remaining_total, remaining_major and remaining_liberal are
\* max(0, required - earned) against 130, 60 and 30 credits, hence never
\* negative, also when more was earned than is required.
C16_RemainingClamped ==
    ProgressComputed =>
        LET progress == rout.progress IN
        /\ progress.required_total = 130
        /\ progress.required_major = 60
        /\ progress.required_liberal = 30
        /\ progress.total_credits = SumCredits(rin.completed)
        /\ progress.remaining_total = RemainingOf(130, progress.total_credits)
        /\ progress.remaining_major = RemainingOf(60, progress.major_credits)
        /\ progress.remaining_liberal = RemainingOf(30, progress.liberal_credits)
        /\ progress.remaining_total >= 0
        /\ progress.remaining_major >= 0
        /\ progress.remaining_liberal >= 0

\* the progress of a student who earned more than each requirement
C16_Witness ==
    /\ rout.op = "run"
    /\ rout.kind = "listing"
    /\ rout.progress.total_credits > 130
    /\ rout.progress.major_credits > 60
    /\ rout.progress.liberal_credits > 30
    /\ rout.progress.remaining_total = 0

\* the major courses among the candidates that the student has not taken
MajorCandidates ==
    SelectSeq(rout.pool, LAMBDA c : c.department = get_student_info(rin.student_id).major_code
                                    /\ ~is_already_taken(c, rin.completed))

\* C17: with max_credits = 18 and untaken major candidates of 3, 3, 3 and 4
\* credits with distinct prefixes, the first four recommendations are these
\* four courses from tier 1, 13 credits together.
C17_FourMajorCoursesAccepted ==
    ( /\ ProgressComputed
      /\ rout.max_credits = 18
      /\ Len(MajorCandidates) = 4
      /\ [i \in 1..4 |-> MajorCandidates[i].credits] = <<3, 3, 3, 4>>
      /\ \A i, j \in 1..4 : i # j => Prefix(MajorCandidates[i]) # Prefix(MajorCandidates[j]) )
    =>  /\ Len(rout.recommendations) >= 4
        /\ \A i \in 1..4 : /\ rout.recommendations[i].course = MajorCandidates[i]
                           /\ rout.recommendations[i].priority = 1
        /\ CurrentCredits(SubSeq(rout.recommendations, 1, 4)) = 13

----------------------------------------------------------------------------
(* Claims about prerequisites                                              *)

\* the course codes a candidate lists as prerequisites
ListedCodes(course) ==
    {Strip(Split(course.prerequisites, ",")[i]) :
        i \in 1..Len(Split(course.prerequisites, ","))} \ {<<>>}

CompletedCodes == {rin.completed[i].course_code : i \in 1..Len(rin.completed)}

\* C18: a candidate that lists prerequisites is recommended, by either
\* version of _generate_recommendations and in any tier, only if every
\* listed course code is among the student's completed course codes.
C18_PrerequisitesRespected ==
    rout.op \in {"engine_generate_recommendations", "generate_recommendations"} =>
        \A i \in 1..Len(rout.recommendations) :
            ListedCodes(rout.recommendations[i].course) \subseteq CompletedCodes

----------------------------------------------------------------------------
(* Claims about the semester calendar                                      *)

\* a day as one number that orders days as the calendar does
DayNumber(year, month, day) == year * 10000 + month * 100 + day

\* the terms around a year: term 1 is March 1 to June 20, term 2 September 1
\* to December 20
Terms(year) ==
    {[year |-> y, semester |-> 1, first |-> DayNumber(y, 3, 1), final |-> DayNumber(y, 6, 20)]
        : y \in (year - 1)..(year + 1)}
    \cup
    {[year |-> y, semester |-> 2, first |-> DayNumber(y, 9, 1), final |-> DayNumber(y, 12, 20)]
        : y \in (year - 1)..(year + 1)}

Today == DayNumber(rin.now.year, rin.now.month, rin.now.day)

\* the terms whose window holds today (none in a vacation)
CurrentTerms == {t \in Terms(rin.now.year) : t.first <= Today /\ Today <= t.final}

\* the first term that starts after the current term, or after today
NextTerm ==
    LET from == IF CurrentTerms = {} THEN Today ELSE (CHOOSE t \in CurrentTerms : TRUE).final
    IN  CHOOSE t \in Terms(rin.now.year) :
            /\ t.first > from
            /\ \A o \in Terms(rin.now.year) : o.first > from => t.first <= o.first

\* the last term that ended before the current term, or before today
PrevTerm ==
    LET upto == IF CurrentTerms = {} THEN Today ELSE (CHOOSE t \in CurrentTerms : TRUE).first
    IN  CHOOSE t \in Terms(rin.now.year) :
            /\ t.final < upto
            /\ \A o \in Terms(rin.now.year) : o.final < upto => t.final >= o.final

\* C19: the next and the previous semester returned are the chronologically
\* adjacent terms, with the year stepping at the turn of the year; April 10
\* of a year gives term 1 of that year, next term 2 of that year, previous
\* term 2 of the year before.
C19_AdjacentTerms ==
    rout.op = "get_current_semester_info" =>
        /\ rout.info.next_semester = SomeInt(NextTerm.semester)
        /\ rout.info.next_semester_year = SomeInt(NextTerm.year)
        /\ rout.info.prev_semester = SomeInt(PrevTerm.semester)
        /\ rout.info.prev_semester_year = SomeInt(PrevTerm.year)
        /\ (rin.now.month = 4 /\ rin.now.day = 10) =>
              /\ rout.info.current_semester = SomeInt(1)
              /\ rout.info.current_semester_year = SomeInt(rin.now.year)
              /\ rout.info.next_semester = SomeInt(2)
              /\ rout.info.next_semester_year = SomeInt(rin.now.year)
              /\ rout.info.prev_semester = SomeInt(2)
              /\ rout.info.prev_semester_year = SomeInt(rin.now.year - 1)

\* the calendar was asked in the last days of December: the next term is
\* term 1 of the following year
C19_Witness ==
    /\ rout.op = "get_current_semester_info"
    /\ rin.now.month = 12
    /\ rin.now.day > 20
    /\ rout.info.next_semester_year = SomeInt(rin.now.year + 1)
    /\ rout.info.prev_semester_year = SomeInt(rin.now.year)

\* month and day as one number
MonthDay == rin.now.month * 100 + rin.now.day

\* C20: every date is in exactly one of term 1 (March 1 to June 20), term 2
\* (September 1 to December 20) and vacation; the current semester and its
\* year are set exactly inside a term window and both absent in a vacation.
C20_ExactlyOneWindow ==
    rout.op = "get_current_semester_info" =>
        /\ rout.info.current_date = rin.now
        /\ MonthDay \in 301..620 =>
              /\ rout.info.current_semester = SomeInt(1)
              /\ rout.info.current_semester_year = SomeInt(rin.now.year)
        /\ MonthDay \in 901..1220 =>
              /\ rout.info.current_semester = SomeInt(2)
              /\ rout.info.current_semester_year = SomeInt(rin.now.year)
        /\ MonthDay \notin (301..620) \cup (901..1220) =>
              /\ rout.info.current_semester = NoneInt
              /\ rout.info.current_semester_year = NoneInt
        /\ rout.info.current_semester \in {NoneInt, SomeInt(1), SomeInt(2)}
        /\ rout.info.current_semester.given <=> rout.info.current_semester_year.given

\* the calendar was asked on June 20, the last day of term 1
C20_Witness ==
    /\ rout.op = "get_current_semester_info"
    /\ rin.now.month = 6
    /\ rin.now.day = 20
    /\ rout.info.current_semester = SomeInt(1)

----------------------------------------------------------------------------
(* Claims about the condition extractor and the validation of queries      *)

\* the synonym groups one of whose names occurs in the query
GroupsNamed(query) ==
    {g \in 1..Len(SYNONYM_MAPPING) :
        \E k \in 1..Len(SYNONYM_MAPPING[g]) : Contains(query, SYNONYM_MAPPING[g][k])}

\* C21: for a text naming a grade level and a department ("...학과") whose
\* name belongs to a synonym group, the extractor yields the grade digit and,
\* as department, the whole synonym group of that name.
C21_DepartmentSynonymGroup ==
    ( /\ rout.op = "parse_course_conditions"
      /\ \E i \in 1..Len(rin.query) : /\ rin.query[i] \in {"1", "2", "3", "4"}
                                      /\ At(rin.query, i + 1, <<"hak", "nyeon">>)
      /\ Contains(rin.query, <<"hak", "gwa">>)
      /\ GroupsNamed(rin.query) # {} )
    =>  /\ rout.conditions.grade.kind = "str"
        /\ \E g \in GroupsNamed(rin.query) :
              rout.conditions.department = ListVal(SYNONYM_MAPPING[g])

\* the query holds one of the SQL keywords, in either case
HoldsSqlKeyword(query) == \E k \in SQL_KEYWORDS : Contains(Upper(query), k)

\* C22: a call of StudentTool, CourseTool or EnrollmentTool whose query holds
\* an SQL keyword returns the rejection message and executes no statement.
C22_SqlPayloadRejected ==
    ( /\ rout.op \in {"student_tool", "course_tool", "enrollment_tool"}
      /\ HoldsSqlKeyword(rin.query) )
    =>  /\ rout.kind = "rejected"
        /\ rout.queries = <<>>

\* an authenticated call with a personal-information query that holds
\* "select" was rejected
C22_Witness ==
    /\ rout.op = "student_tool"
    /\ rin.authenticated
    /\ Contains(rin.query, <<"nae", SP, "jeong", "bo">>)
    /\ HoldsSqlKeyword(rin.query)
    /\ rout.kind = "rejected"

\* the four digits of a year
YearText(year) ==
    << Digits[((year \div 1000) % 10) + 1], Digits[((year \div 100) % 10) + 1],
       Digits[((year \div 10) % 10) + 1], Digits[(year % 10) + 1] >>

\* positions of a term mention, "1학기" or "2학기"
TermMentions(query) ==
    {i \in 1..Len(query) : query[i] \in {"1", "2"} /\ At(query, i + 1, <<"hak", "gi">>)}

\* positions where a year of four digits stands
YearMentions(query) ==
    {i \in 1..Len(query) : i + 3 <= Len(query) /\ \A k \in i..(i + 3) : IsDigit(query[k])}

\* C30: the semester is taken from the first matching pattern; a mention
\* with a year gives "<that year>-<term>", a mention of a term alone gives
\* "<current calendar year>-<term>".
C30_SemesterToken ==
    ( /\ rout.op = "parse_enrollment_conditions"
      /\ TermMentions(rin.query) # {} )
    =>  \E i \in TermMentions(rin.query) :
            IF YearMentions(rin.query) = {}
            THEN rout.conditions.semester =
                    StrVal(YearText(rin.now.year) \o <<"-", rin.query[i]>>)
            ELSE \E y \in YearMentions(rin.query) :
                    rout.conditions.semester =
                        StrVal(SubSeq(rin.query, y, y + 3) \o <<"-", rin.query[i]>>)

----------------------------------------------------------------------------
(* Claims about the rendering of the recent context                        *)

\* C23: get_recent_context(n), n >= 0, renders exactly the last
\* min(n, len(h)) turns of the history h in insertion order, each as its
\* question and at most the first 200 characters of its answer, and nothing
\* for an empty history.
C23_LastTurnsRendered ==
    rout.op = "get_recent_context" =>
        LET h == rin.history.items
            k == Min(rin.limit, Len(h))
            turn(j) == h[Len(h) - k + j]
        IN  /\ Len(rout.context) = 2 * k
            /\ \A j \in 1..k :
                  /\ rout.context[2 * j - 1].text = turn(j).question
                  /\ Len(rout.context[2 * j].text) <= 200
                  /\ rout.context[2 * j].text =
                        SubSeq(turn(j).answer, 1, Len(rout.context[2 * j].text))
                  /\ Len(rout.context[2 * j].text) = Min(200, Len(turn(j).answer))

----------------------------------------------------------------------------
(* Claims about the target semester of a recommendation                    *)

\* "<year>-<term>" for the terms that follow the days of the calls
SemesterName(year, term) ==
    CASE year = 2025 /\ term = 1 -> "2025-1"
      [] year = 2025 /\ term = 2 -> "2025-2"
      [] year = 2026 /\ term = 1 -> "2026-1"
      [] year = 2026 /\ term = 2 -> "2026-2"
      [] OTHER -> "other"

\* C24: a call of _run without a semester argument works on the next
\* semester, the (next_semester_year, next_semester) of the semester
\* calendar on the day of the call.
C24_DefaultsToNextSemester ==
    ( /\ rout.op = "run"
      /\ rin.semester = "None" )
    =>  LET info == get_current_semester_info(rin.now) IN
        rout.semester = SemesterName(info.next_semester_year.value,
                                     info.next_semester.value)

----------------------------------------------------------------------------
(* Claims about the greedy selection of the engine                         *)

\* the first five characters of a course code
Code5(course) == SubSeq(course.course_code, 1, Min(5, Len(course.course_code)))

\* the student has completed no course with the prefix of the course
Untaken(course) == \A i \in 1..Len(rin.completed) : Code5(rin.completed[i]) # Code5(course)

\* the first n courses of the pool that the student has not taken and that
\* are of the major (major = TRUE) or liberal-arts courses (major = FALSE)
FirstUntaken(n, major) ==
    LET fits(c) == /\ Untaken(c)
                   /\ IF major
                      THEN rin.student_id \in DOMAIN Students
                           /\ c.department = Students[rin.student_id]
                      ELSE c.course_type \in {"gyoyanggicho", "gyoyangseontaek",
                                              "haeksimgyoyang"}
        all == SelectSeq(rout.pool, fits)
    IN  SubSeq(all, 1, Min(n, Len(all)))

\* the liberal-arts credits the student still needs
LiberalLeft ==
    30 - SumCredits(SelectSeq(rin.completed,
                              LAMBDA c : c.course_type \in {"gyoyanggicho", "gyoyangseontaek",
                                                            "haeksimgyoyang"}))

\* the candidates in the order of examination, each with its tier
Examined ==
    LET tagged(list, tier) == [i \in 1..Len(list) |-> [course |-> list[i],
                                                       priority |-> tier]]
    IN  tagged(FirstUntaken(3, TRUE), 1)
        \o (IF LiberalLeft > 0 THEN tagged(FirstUntaken(2, FALSE), 2) ELSE <<>>)
        \o tagged(FirstUntaken(2, TRUE), 3)

\* the credits of a selection
Total(chosen) == SumCredits([i \in 1..Len(chosen) |-> chosen[i].course])

\* the greedy selection from the k-th examined candidate on
RECURSIVE Greedy(_, _, _, _)
Greedy(examined, k, chosen, cap) ==
    IF k > Len(examined) \/ Total(chosen) >= cap THEN chosen
    ELSE LET e == examined[k] IN
         IF /\ Total(chosen) + e.course.credits <= cap
            /\ \A i \in 1..Len(chosen) : Code5(chosen[i].course) # Code5(e.course)
         THEN Greedy(examined, k + 1, Append(chosen, e), cap)
         ELSE Greedy(examined, k + 1, chosen, cap)

\* C25: _generate_recommendations returns the greedy tiered selection: the
\* tiers in the order 1 (first 3 untaken major candidates), 2 (first 2
\* untaken liberal-arts candidates, if liberal credits remain), 3 (first 2
\* untaken major candidates); a candidate is accepted iff it fits under
\* max_credits and its prefix is not yet recommended, a candidate that does
\* not fit is skipped, the selection stops when the total reaches
\* max_credits, and the list is ordered by tier.
C25_GreedyTieredSelection ==
    ProgressComputed =>
        /\ LET examined == Examined IN
           rout.recommendations = Greedy(examined, 1, <<>>, rout.max_credits)
        /\ \A i, j \in 1..Len(rout.recommendations) :
              i < j => rout.recommendations[i].priority <= rout.recommendations[j].priority

\* a major candidate of tier 1 did not fit and was skipped, and a
\* liberal-arts candidate examined after it was accepted
C25_Witness ==
    /\ rout.op = "run"
    /\ FirstUntaken(3, TRUE) # <<>>
    /\ \A i \in 1..Len(FirstUntaken(3, TRUE)) :
          FirstUntaken(3, TRUE)[i].credits > rout.max_credits
    /\ Len(rout.recommendations) = 1
    /\ rout.recommendations[1].priority = 2

\* C26: no recommended course shares its five-character prefix with a
\* completed course of the student, in any tier.
C26_NoRetake ==
    ProgressComputed =>
        \A i \in 1..Len(rout.recommendations), j \in 1..Len(rin.completed) :
            Code5(rout.recommendations[i].course) # Code5(rin.completed[j])

\* courses were recommended while a course on offer was left out because
\* the student had completed one of its prefix
C26_Witness ==
    /\ rout.op = "run"
    /\ rout.recommendations # <<>>
    /\ \E i \in 1..Len(rout.pool) :
          /\ ~Untaken(rout.pool[i])
          /\ rout.pool[i].department = get_student_info(rin.student_id).major_code

\* C29: every recommendation has tier 1 or 2 (tier 3 never contributes),
\* and at most 5 courses are recommended.
C29_NoThirdTier ==
    ProgressComputed =>
        /\ \A i \in 1..Len(rout.recommendations) :
              rout.recommendations[i].priority \in {1, 2}
        /\ Len(rout.recommendations) <= 5

\* five courses were recommended with credits to spare, so that tier 3 was
\* examined and added nothing
C29_Witness ==
    /\ rout.op = "run"
    /\ Len(rout.recommendations) = 5
    /\ Total(rout.recommendations) < rout.max_credits
    /\ FirstUntaken(2, TRUE) # <<>>

----------------------------------------------------------------------------
(* Claims about the persistence of the history                             *)

\* C27: a save is an atomic overwrite: whatever happens during it (the write
\* fails, the process stops), the store afterwards holds the complete
\* previous text or the complete text of the new history, never an empty, cut
\* or unparseable one.
C27_AtomicOverwrite ==
    [][ \/ store' = store
        \/ /\ store'.kind = "text"
           /\ running' => store' = FileOf(json_dump(conversation_history')) ]_vars

----------------------------------------------------------------------------
(* Claims about the memory context of the specialists                      *)

\* the turns with each answer written as a text of one word
AsText(turns) ==
    JsonList([i \in 1..Len(turns) |-> [turns[i] EXCEPT !.answer = <<@>>]])

\* the backstory of the agents of the instance: _create_agents is called by
\* __init__ only, on the history the instance loaded
AgentBackstory == get_summary_expert_backstory(AsText(loaded))

\* the summary and the recent context end with the turn
EndsWith(backstory, turn) ==
    LET summary == backstory.conversation_summary
        context == backstory.memory_context
    IN  /\ summary # <<>>
        /\ summary[Len(summary)][2] = turn.question
        /\ summary[Len(summary)][3] = turn.question_type
        /\ context # <<>>
        /\ context[Len(context) - 1].text = turn.question
        /\ context[Len(context)].text = <<turn.answer>>

\* C28: when the server starts to process a question of the student after a
\* turn of this session was recorded, the memory context of the specialists
\* (recent context and conversation summary) includes the turn recorded
\* last: it is the history of that moment, not the history of the moment
\* the student's AgentSystem was created.
C28_ContextIsCurrent ==
    [][ \A t \in DOMAIN pc :
          ( /\ pc[t] = "new"
            /\ pc'[t] = "kickoff"
            /\ calls # <<>> )
          => EndsWith(AgentBackstory', calls[Len(calls)]) ]_vars

====
